---- MODULE Spec2Model ----
(***************************************************************************)
(* A model of the discovery engine: the adapter host (registry), the      *)
(* query methods Engine.Get / Engine.Find / Engine.Search with the tag    *)
(* cache and the GetFindMutex, Engine.ExecuteRequest, and the bounded      *)
(* execution pool.                                                         *)
(***************************************************************************)
EXTENDS Integers, Sequences, FiniteSets, TLC

VARIABLES
    adapters,    \* AdapterHost.adapters: the registry, in registration order
    clearPc,     \* position of each ClearAllAdapters caller
    lastAdd,     \* the last AddAdapters call: adapters given, appended, error
    cache,       \* the engine's cache: a sequence of tagged entries
    readers,     \* GetFindMutex: number of read locks held per <<context, type>>
    panicked,    \* the process died on an RUnlock of an unlocked RWMutex
    ncalls,      \* number of adapter calls made so far
    last,        \* the last ExecuteRequest: request, adapter calls, result
    prev,        \* the ExecuteRequest before it, when it made the same request
    jobs,        \* execution pool: the state of every adapter invocation
    permits,     \* execution pool: free permits of the semaphore
    expanded,    \* the last ExpandQuery call: the query and its sub-queries
    procs,       \* concurrent queries: the position of each in its method
    writers,     \* GetFindMutex: the <<context, type>> whose write lock is held
    linked,      \* the last ExecuteRequest with its link fields: request, items
    tracker,     \* a QueryTracker: its frontier, visited set and items
    timed,       \* a QueryTracker under a clock: deadline, call in flight, result
    handler,     \* ItemRequestHandler: its position and what it has published
    heartbeat    \* the last sendHeartbeat: healthcheck, message sent, error

vars ==
    <<adapters, clearPc, lastAdd, cache, readers, panicked, ncalls, last, prev,
      jobs, permits, expanded, procs, writers, linked, tracker, timed, handler,
      heartbeat>>

hostVars == <<adapters, clearPc, lastAdd>>
engineVars == <<cache, readers, panicked, ncalls, last, prev>>
poolVars == <<jobs, permits>>
expandVars == <<expanded>>
lockVars == <<procs, writers>>
linkVars == <<linked>>
trackVars == <<tracker>>
timedVars == <<timed>>
handlerVars == <<handler>>
heartbeatVars == <<heartbeat>>
\* what the engine, the host and the pool leave alone
auxVars ==
    <<expandVars, lockVars, linkVars, trackVars, timedVars, handlerVars,
      heartbeatVars>>
\* what ExpandQuery, the concurrent queries, the linking, the tracker, the
\* timed tracker, the request handler and the heartbeat leave alone, next to
\* the host, the engine and the pool
serviceVars == <<timedVars, handlerVars, heartbeatVars>>
expandOthers == <<lockVars, linkVars, trackVars, serviceVars>>
lockOthers == <<expandVars, linkVars, trackVars, serviceVars>>
linkOthers == <<expandVars, lockVars, trackVars, serviceVars>>
trackOthers == <<expandVars, lockVars, linkVars, serviceVars>>
queryVars == <<expandVars, lockVars, linkVars, trackVars>>
timedOthers == <<queryVars, handlerVars, heartbeatVars>>
handlerOthers == <<queryVars, timedVars, heartbeatVars>>
heartbeatOthers == <<queryVars, timedVars, handlerVars>>

----------------------------------------------------------------------------
(* Bounds of the model *)

\* adapter calls made in one behaviour of the engine
MaxCalls == 3
\* read locks a behaviour may leave held on one <<context, type>>
MaxReaders == 2
\* adapters passed to one AddAdapters call
MaxBatch == 2
\* adapter invocations submitted to the execution pool, and their link depth
MaxJobs == 4
MaxDepth == 1
\* Engine.MaxParallelExecutions
MaxParallelExecutions == 2
\* adapters registered next to the built-in ones when a query is expanded
MaxRegistry == 2
\* queries the engine executes concurrently
MaxProcs == 2
\* the LinkDepth of a request
MaxLinkDepth == 2
\* linked item requests of one item, and the length of a cycle of links
MaxLinks == 2
\* sub-queries of one tracker that a source answers with an error
MaxErrors == 1
\* the QueryDelay of the source and the Timeout of a query, in ticks
MaxDelay == 2
MaxTimeout == 4
\* items one request publishes, and keepalives its responder sends
MaxItems == 2
MaxKeepalives == 1

----------------------------------------------------------------------------
(* Adapters *)

WILDCARD == "*"

IsWildcard(s) == s = WILDCARD

\* The adapters a test may construct: id |-> (Type(), Scopes(), Hidden(),
\* whether it implements SearchableSource).
AdapterDef ==
    [a1 |-> [type |-> "person", scopes |-> <<"test">>, hidden |-> FALSE, searchable |-> TRUE],
     a2 |-> [type |-> "person", scopes |-> <<"prod", "test">>, hidden |-> FALSE, searchable |-> TRUE],
     a3 |-> [type |-> "person", scopes |-> <<"*">>, hidden |-> FALSE, searchable |-> TRUE],
     a4 |-> [type |-> "dog", scopes |-> <<"test">>, hidden |-> TRUE, searchable |-> FALSE],
     a5 |-> [type |-> "secret", scopes |-> <<"*">>, hidden |-> TRUE, searchable |-> FALSE],
     a6 |-> [type |-> "person", scopes |-> <<"test2">>, hidden |-> FALSE, searchable |-> TRUE],
     a7 |-> [type |-> "person", scopes |-> <<"test">>, hidden |-> FALSE, searchable |-> FALSE],
     b1 |-> [type |-> "overmind-type", scopes |-> <<"global">>, hidden |-> FALSE, searchable |-> TRUE],
     b2 |-> [type |-> "overmind-scope", scopes |-> <<"global">>, hidden |-> FALSE, searchable |-> TRUE],
     b3 |-> [type |-> "overmind-adapter", scopes |-> <<"global">>, hidden |-> FALSE, searchable |-> TRUE]]

UserAdapters == {"a1", "a2", "a3", "a4"}
BuiltinAdapters == <<"b1", "b2", "b3">>

Type(a) == AdapterDef[a].type
Scopes(a) == AdapterDef[a].scopes
Hidden(a) == AdapterDef[a].hidden
Searchable(a) == AdapterDef[a].searchable
Name(a) == a

Range(s) == {s[i] : i \in 1..Len(s)}

----------------------------------------------------------------------------
(* The cache: a tag-indexed store of items and errors *)

NoItem == [type |-> "", context |-> "", uav |-> "", source |-> ""]

\* &sdp.Item{}: the zero item Engine.Get returns next to an error
EmptyItem == NoItem

HasTags(entry, searchTags) == searchTags \subseteq entry.tags

Matching(c, searchTags) == SelectSeq(c, LAMBDA e : HasTags(e, searchTags))

\* Search: every entry whose tags are a superset of the search tags; a stored
\* error shadows the items; nothing found is a CacheNotFoundError.
CacheSearch(c, searchTags) ==
    LET m == Matching(c, searchTags)
        errs == SelectSeq(m, LAMBDA e : e.err # "nil")
    IN  IF Len(m) = 0 THEN [items |-> <<>>, err |-> "CacheNotFound"]
        ELSE IF Len(errs) > 0 THEN [items |-> <<>>, err |-> errs[1].err]
        ELSE [items |-> [i \in 1..Len(m) |-> m[i].item], err |-> "nil"]

\* the lookup a query with IgnoreCache does not make
CacheMiss == [items |-> <<>>, err |-> "CacheNotFound"]

SameItem(i, j) == i.type = j.type /\ i.context = j.context /\ i.uav = j.uav

SameKey(e, f) ==
    /\ e.tags = f.tags
    /\ IF e.err # "nil" THEN f.err # "nil"
       ELSE f.err = "nil" /\ SameItem(e.item, f.item)

Store(c, e) ==
    IF \E i \in 1..Len(c) : SameKey(c[i], e)
    THEN [i \in 1..Len(c) |-> IF SameKey(c[i], e) THEN e ELSE c[i]]
    ELSE Append(c, e)

StoreItem(c, item, tags) == Store(c, [tags |-> tags, item |-> item, err |-> "nil"])

StoreError(c, err, tags) == Store(c, [tags |-> tags, item |-> NoItem, err |-> err])

CacheDelete(c, searchTags) == SelectSeq(c, LAMBDA e : ~HasTags(e, searchTags))

----------------------------------------------------------------------------
(* Requests *)

Methods == {"GET", "FIND", "SEARCH"}
QueryTypes == {"person", "house"}
QueryContexts == {"test"}

\* a context no source of the tests declares
WrongContext == "wrong"
Queries == {"n1"}

\* requests for a type that has sources, and requests for one that has none
Requests ==
    [method : Methods, type : {"person"}, context : QueryContexts,
     query : Queries, ignoreCache : BOOLEAN]
    \cup [method : Methods, type : {"house"}, context : QueryContexts,
          query : Queries, ignoreCache : {FALSE}]

NoReq == [method |-> "NONE", type |-> "", context |-> "", query |-> "", ignoreCache |-> FALSE]

NoQuery == [req |-> NoReq, called |-> <<>>, items |-> <<>>, err |-> "nil"]

\* e.FilterSources(type, context): the registered sources of the type that
\* handle the context, in registration order
FilterSources(typ, ctx) ==
    SelectSeq(adapters, LAMBDA a :
        /\ Type(a) = typ
        /\ \E i \in 1..Len(Scopes(a)) : IsWildcard(Scopes(a)[i]) \/ Scopes(a)[i] = ctx)

Key(r) == <<r.context, r.type>>

----------------------------------------------------------------------------
(* Engine.Get *)

GetTags(src, r) ==
    {<<"sourceName", Name(src)>>, <<"uniqueAttributeValue", r.query>>,
     <<"type", r.type>>, <<"context", r.context>>}

\* what an adapter's Get may answer: an item, a nil pointer with no error,
\* a NOTFOUND error, any other error
GetOutcomes == {"item", "nilitem", "NOTFOUND", "OTHER"}

\* the cached error for which Get skips the source
GetSkipsOn(cacheErr) == cacheErr = "NOTFOUND"

\* a Get that stores no error at all
GetCachesNoError(err) == FALSE

\* the adapter error Get stores in the cache
GetCachesError(err) == err = "NOTFOUND"

\* an item an adapter returns, with the metadata the engine sets on it
NewItem(src, r, uav) ==
    [type |-> Type(src), context |-> r.context, uav |-> uav, source |-> Name(src)]

GetResult(st, item, err, panic) ==
    [cache |-> st.cache, rd |-> st.rd, n |-> st.n, called |-> st.called,
     item |-> item, err |-> err, panicked |-> panic]

\* The loop of Get from source i on, as the set of its possible results: one
\* for every answer of the adapters it calls. st holds the cache, the read
\* locks held on the request's <<context, type>>, the calls made and the err
\* variable. GetUnlock with no read lock held is an RUnlock of an unlocked
\* RWMutex: a fatal error of the Go runtime.
RECURSIVE GetIter(_, _, _, _)
GetCall(r, rel, i, st, c1, out) ==
    LET src == rel[i]
        tags == GetTags(src, r)
        err == IF out \in {"NOTFOUND", "OTHER"} THEN out ELSE "nil"
        c2 == IF err # "nil" /\ GetCachesError(err) THEN StoreError(c1, err, tags) ELSE c1
        item == NewItem(src, r, r.query)
        st2 == [st EXCEPT !.cache = c2, !.n = @ + 1, !.err = err,
                          !.called = Append(@, [src |-> src, out |-> out])]
        st3 == [st2 EXCEPT !.cache = StoreItem(c2, item, tags)]
    IN  IF out = "nilitem" THEN {GetResult(st2, EmptyItem, "OTHER", FALSE)}
        ELSE IF out = "item" THEN
            IF st.rd = 0 THEN {GetResult(st3, EmptyItem, "nil", TRUE)}
            ELSE {GetResult([st3 EXCEPT !.rd = @ - 1], item, "nil", FALSE)}
        ELSE IF st.rd = 0 THEN {GetResult(st2, EmptyItem, err, TRUE)}
        ELSE GetIter(r, rel, i + 1, [st2 EXCEPT !.rd = @ - 1])

GetIter(r, rel, i, st) ==
    IF i > Len(rel) THEN {GetResult(st, EmptyItem, st.err, FALSE)}
    ELSE
      LET tags == GetTags(rel[i], r)
          look == IF r.ignoreCache THEN CacheMiss ELSE CacheSearch(st.cache, tags)
      IN
      IF GetSkipsOn(look.err) THEN GetIter(r, rel, i + 1, st)
      ELSE IF look.err = "nil" /\ Len(look.items) = 1 THEN
          IF st.rd = 0 THEN {GetResult(st, EmptyItem, "nil", TRUE)}
          ELSE {GetResult([st EXCEPT !.rd = @ - 1], look.items[1], "nil", FALSE)}
      ELSE
        LET c1 == IF look.err = "nil" THEN CacheDelete(st.cache, tags) ELSE st.cache
        IN  UNION {GetCall(r, rel, i, st, c1, out) : out \in GetOutcomes}

\* Engine.Get(ctx, r, relevantSources): the set of its possible results
Get(r, rel) ==
    IF Len(rel) = 0
    THEN {[cache |-> cache, rd |-> readers[Key(r)], n |-> ncalls, called |-> <<>>,
           item |-> NoItem, err |-> "NOCONTEXT", panicked |-> FALSE]}
    ELSE GetIter(r, rel, 1,
                 [cache |-> cache, rd |-> readers[Key(r)] + 1, n |-> ncalls,
                  called |-> <<>>, err |-> "nil"])

----------------------------------------------------------------------------
(* Engine.Find and Engine.Search *)

FindTags(src, r) ==
    {<<"method", "find">>, <<"sourceName", Name(src)>>, <<"context", r.context>>}

SearchTags(src, r) ==
    {<<"method", "find">>, <<"sourceName", Name(src)>>, <<"query", r.query>>,
     <<"context", r.context>>}

\* what an adapter's Find or Search may answer: the unique attribute values
\* of the items it returns, and its error
ListOutcomes ==
    {[names |-> <<>>, err |-> "nil"],
     [names |-> <<"n1">>, err |-> "nil"],
     [names |-> <<>>, err |-> "NOTFOUND"],
     [names |-> <<>>, err |-> "OTHER"]}

\* a Find that skips the source on any cached error
FindSkipsOnAnyError(cacheErr) == cacheErr \in {"NOTFOUND", "OTHER"}

\* the cached error for which Find (Search) skips the source
FindSkipsOn(cacheErr) == cacheErr = "NOTFOUND"
SearchSkipsOn(cacheErr) == cacheErr = "NOTFOUND"

\* the adapter error Find (Search) stores in the cache: any
FindCachesError(err) == err # "nil"
SearchCachesError(err) == err # "nil"

RECURSIVE StoreItems(_, _, _)
StoreItems(c, items, tags) ==
    IF Len(items) = 0 THEN c
    ELSE StoreItems(StoreItem(c, Head(items), tags), Tail(items), tags)

\* the end of Find and of Search: no error when one source succeeded, else
\* the first error
ListReturn(st) ==
    [cache |-> st.cache, n |-> st.n, called |-> st.called, items |-> st.items,
     err |-> IF \E i \in 1..Len(st.errors) : st.errors[i] = "nil" THEN "nil"
             ELSE IF Len(st.errors) > 0 THEN st.errors[1]
             ELSE "nil"]

\* the adapter call of Find (Search) and the stores that follow it
ListCall(r, src, tags, cachesErr, out, st) ==
    LET finds == [k \in 1..Len(out.names) |-> NewItem(src, r, out.names[k])]
        c1 == IF out.err = "nil"
              THEN IF Len(finds) = 0 THEN StoreError(st.cache, "NOTFOUND", tags)
                   ELSE st.cache
              ELSE IF cachesErr THEN StoreError(st.cache, out.err, tags)
                   ELSE st.cache
    IN  [cache |-> StoreItems(c1, finds, tags), n |-> st.n + 1,
         called |-> Append(st.called, [src |-> src, out |-> out]),
         items |-> st.items \o finds, errors |-> Append(st.errors, out.err)]

\* the cached items that answer for a source
ListCached(look, st) ==
    [st EXCEPT !.items = @ \o look.items, !.errors = Append(@, "nil")]

ListLookup(r, st, tags) ==
    IF r.ignoreCache THEN CacheMiss ELSE CacheSearch(st.cache, tags)

\* The loop of Find from source i on, as the set of its possible results
RECURSIVE FindIter(_, _, _, _)
FindIter(r, rel, i, st) ==
    IF i > Len(rel) THEN {ListReturn(st)}
    ELSE
      LET tags == FindTags(rel[i], r)
          look == ListLookup(r, st, tags)
      IN  IF FindSkipsOn(look.err) THEN FindIter(r, rel, i + 1, st)
          ELSE IF look.err = "nil" /\ Len(look.items) > 0
          THEN FindIter(r, rel, i + 1, ListCached(look, st))
          ELSE UNION {FindIter(r, rel, i + 1,
                               ListCall(r, rel[i], tags, FindCachesError(out.err), out, st))
                      : out \in ListOutcomes}

\* Engine.Find(ctx, r, relevantSources): the set of its possible results
Find(r, rel) ==
    IF Len(rel) = 0
    THEN {[cache |-> cache, n |-> ncalls, called |-> <<>>, items |-> <<>>,
           err |-> "NOCONTEXT"]}
    ELSE FindIter(r, rel, 1,
                  [cache |-> cache, n |-> ncalls, called |-> <<>>, items |-> <<>>,
                   errors |-> <<>>])

\* The loop of Search from source i on, as the set of its possible results
RECURSIVE SearchIter(_, _, _, _)
SearchIter(r, rel, i, st) ==
    IF i > Len(rel) THEN {ListReturn(st)}
    ELSE
      LET tags == SearchTags(rel[i], r)
          look == ListLookup(r, st, tags)
      IN  IF SearchSkipsOn(look.err) THEN SearchIter(r, rel, i + 1, st)
          ELSE IF look.err = "nil" /\ Len(look.items) > 0
          THEN SearchIter(r, rel, i + 1, ListCached(look, st))
          ELSE UNION {SearchIter(r, rel, i + 1,
                                 ListCall(r, rel[i], tags, SearchCachesError(out.err), out, st))
                      : out \in ListOutcomes}

\* a Search that asks every relevant source, searchable or not
SearchEverySource(r, rel) ==
    SearchIter(r, rel, 1,
               [cache |-> cache, n |-> ncalls, called |-> <<>>, items |-> <<>>,
                errors |-> <<>>])

\* Engine.Search(ctx, r, relevantSources): the set of its possible results
Search(r, rel) ==
    LET searchableSources == SelectSeq(rel, LAMBDA a : Searchable(a))
    IN  IF Len(searchableSources) = 0
        THEN {[cache |-> cache, n |-> ncalls, called |-> <<>>, items |-> <<>>,
               err |-> "NOCONTEXT"]}
        ELSE SearchIter(r, searchableSources, 1,
                        [cache |-> cache, n |-> ncalls, called |-> <<>>, items |-> <<>>,
                         errors |-> <<>>])

----------------------------------------------------------------------------
(* Engine.ExecuteRequest, one action per request method *)

\* what ExecuteRequest returns: nothing but the error when the method failed
Returned(req, called, items, err) ==
    [req |-> req, called |-> called, items |-> IF err # "nil" THEN <<>> ELSE items,
     err |-> err]

\* the query before this one, kept when it made the same request
Before(r) == IF last.req = r THEN last ELSE NoQuery

ExecuteGet(r) ==
    /\ r.method = "GET"
    /\ ~panicked
    /\ \E res \in Get(r, FilterSources(r.type, r.context)) :
         /\ res.n <= MaxCalls
         /\ res.rd <= MaxReaders
         /\ cache' = res.cache
         /\ ncalls' = res.n
         /\ readers' = [readers EXCEPT ![Key(r)] = res.rd]
         /\ panicked' = res.panicked
         /\ last' = IF res.panicked THEN Returned(r, res.called, <<>>, "PANIC")
                    ELSE Returned(r, res.called, <<res.item>>, res.err)
         /\ prev' = Before(r)
    /\ UNCHANGED <<hostVars, poolVars, auxVars>>

\* FindLock is a write lock: the call blocks while a read lock is held
ExecuteFind(r) ==
    /\ r.method = "FIND"
    /\ ~panicked
    /\ Len(FilterSources(r.type, r.context)) > 0 => readers[Key(r)] = 0
    /\ \E res \in Find(r, FilterSources(r.type, r.context)) :
         /\ res.n <= MaxCalls
         /\ cache' = res.cache
         /\ ncalls' = res.n
         /\ last' = Returned(r, res.called, res.items, res.err)
         /\ prev' = Before(r)
    /\ UNCHANGED <<readers, panicked, hostVars, poolVars, auxVars>>

\* Search takes and releases the read lock (GetLock, deferred GetUnlock)
ExecuteSearch(r) ==
    /\ r.method = "SEARCH"
    /\ ~panicked
    /\ \E res \in Search(r, FilterSources(r.type, r.context)) :
         /\ res.n <= MaxCalls
         /\ cache' = res.cache
         /\ ncalls' = res.n
         /\ last' = Returned(r, res.called, res.items, res.err)
         /\ prev' = Before(r)
    /\ UNCHANGED <<readers, panicked, hostVars, poolVars, auxVars>>

\* an entry reaches the end of its cache duration and is dropped
Expire(i) ==
    /\ ~panicked
    /\ i \in 1..Len(cache)
    /\ cache' = [k \in 1..(Len(cache) - 1) |-> IF k < i THEN cache[k] ELSE cache[k + 1]]
    /\ last' = NoQuery
    /\ prev' = NoQuery
    /\ UNCHANGED <<readers, panicked, ncalls, hostVars, poolVars, auxVars>>

Keys == (QueryContexts \cup {WrongContext}) \X QueryTypes

\* registries the engine is started with
EngineRegistries ==
    {BuiltinAdapters \o <<"a1">>, BuiltinAdapters \o <<"a1", "a3">>}

\* the callers of ClearAllAdapters
Clearers == {"c1", "c2"}

NoAdd == [given |-> 0, added |-> 0, err |-> "nil"]

InitHostIdle ==
    /\ clearPc = [p \in Clearers |-> 0]
    /\ lastAdd = NoAdd

InitPoolIdle ==
    /\ jobs = <<>>
    /\ permits = MaxParallelExecutions

NoExpand == [q |-> [type |-> "", scope |-> ""], subs |-> <<>>]

\* an outcome of no adapter call
NoOut == [names |-> <<>>, err |-> "none"]

NoResult == [items |-> <<>>, err |-> "none"]

\* a goroutine that has no query yet
NoProc == [pc |-> "idle", req |-> NoReq, out |-> NoOut, res |-> NoResult]

Procs == 1..MaxProcs

InitLockIdle ==
    /\ procs = [p \in Procs |-> NoProc]
    /\ writers = {}

\* no ExecuteRequest made yet
NoLinked == [req |-> NoReq, items |-> <<>>, err |-> "none"]

\* a tracker that has not been given its query
NoTracker ==
    [state |-> "created", world |-> [kind |-> "none", k |-> 0], frontier |-> <<>>,
     visited |-> {}, items |-> <<>>, dispatched |-> <<>>, errors |-> 0]

\* no call in flight
NoCall == [depth |-> 0, due |-> 0, live |-> FALSE]

\* a timed tracker that has not been given its query
NoTimed ==
    [state |-> "created", now |-> 0, timeout |-> 0, delay |-> 0, rootDepth |-> 0,
     ctx |-> "live", cancelledAt |-> 0, todo |-> FALSE, todoDepth |-> 0,
     inflight |-> NoCall, pending |-> "none", items |-> 0, calls |-> 0,
     lateItems |-> 0, lateCalls |-> 0, err |-> "nil"]

\* what Execute has not returned yet
NoOutcome == [kind |-> "none", errorType |-> ""]

\* a handler that has not been given a request
NoHandler ==
    [pc |-> "idle", outcome |-> NoOutcome, toPublish |-> 0, published |-> <<>>,
     req |-> [type |-> "", context |-> "", uuid |-> ""], calls |-> 0,
     tracked |-> {}, handled |-> 0]

\* no heartbeat sent yet
NoHeartbeat ==
    [options |-> "nil", healthCheck |-> "undefined", frequency |-> 0,
     loop |-> "idle", ctx |-> "live", tick |-> FALSE, calls |-> 0,
     health |-> "none", sent |-> <<>>, err |-> "none", lateSends |-> 0]

InitAuxIdle ==
    /\ expanded = NoExpand
    /\ InitLockIdle
    /\ linked = NoLinked
    /\ tracker = NoTracker
    /\ timed = NoTimed
    /\ handler = NoHandler
    /\ heartbeat = NoHeartbeat

InitEngineIdle ==
    /\ cache = <<>>
    /\ readers = [k \in Keys |-> 0]
    /\ panicked = FALSE
    /\ ncalls = 0
    /\ last = NoQuery
    /\ prev = NoQuery

Init ==
    /\ adapters \in EngineRegistries
    /\ InitHostIdle
    /\ InitPoolIdle
    /\ InitEngineIdle
    /\ InitAuxIdle

Next ==
    \/ \E r \in Requests : ExecuteGet(r)
    \/ \E r \in Requests : ExecuteFind(r)
    \/ \E r \in Requests : ExecuteSearch(r)
    \/ \E i \in 1..Len(cache) : Expire(i)

Spec == Init /\ [][Next]_vars

\* requests for types and contexts with and without sources
NoContextRequests ==
    [method : Methods, type : QueryTypes, context : QueryContexts \cup {WrongContext},
     query : Queries, ignoreCache : {FALSE}]

\* an engine whose only source can search, and one whose only source cannot
NoContextRegistries ==
    {BuiltinAdapters \o <<"a1">>, BuiltinAdapters \o <<"a7">>}

InitNoContext ==
    /\ adapters \in NoContextRegistries
    /\ InitHostIdle
    /\ InitPoolIdle
    /\ InitEngineIdle
    /\ InitAuxIdle

NextNoContext ==
    \/ \E r \in NoContextRequests : ExecuteGet(r)
    \/ \E r \in NoContextRequests : ExecuteFind(r)
    \/ \E r \in NoContextRequests : ExecuteSearch(r)
    \/ \E i \in 1..Len(cache) : Expire(i)

SpecNoContext == InitNoContext /\ [][NextNoContext]_vars

----------------------------------------------------------------------------
(* AdapterHost *)

\* an AddAdapters whose validation finds no overlap
OverlapsNever(existingAdapter, adapter) == FALSE

\* the validation of AddAdapters: the existing adapter has the type of the
\* new one and a scope equal to one of its scopes
Overlaps(existingAdapter, adapter) ==
    /\ Type(existingAdapter) = Type(adapter)
    /\ \E i \in 1..Len(Scopes(adapter)) : \E j \in 1..Len(Scopes(existingAdapter)) :
         Scopes(existingAdapter)[j] = Scopes(adapter)[i]

\* the loop of AddAdapters over its arguments: the first adapter that
\* overlaps ends the call with an error, the ones before it stay appended
RECURSIVE AddLoop(_, _, _)
AddLoop(reg, batch, i) ==
    IF i > Len(batch) THEN [adapters |-> reg, err |-> "nil"]
    ELSE IF \E k \in 1..Len(reg) : Overlaps(reg[k], batch[i])
         THEN [adapters |-> reg, err |-> "exists"]
         ELSE AddLoop(Append(reg, batch[i]), batch, i + 1)

Batches == UNION {[1..n -> UserAdapters] : n \in 1..MaxBatch}

\* sh.AddAdapters(batch...), under sh.mutex
AddAdapters(batch) ==
    /\ \E res \in {AddLoop(adapters, batch, 1)} :
         /\ adapters' = res.adapters
         /\ lastAdd' = [given |-> Len(batch),
                        added |-> Len(res.adapters) - Len(adapters),
                        err |-> res.err]
    /\ UNCHANGED <<clearPc, engineVars, poolVars, auxVars>>

\* sh.ClearAllAdapters(), first part: the registry is emptied under sh.mutex
ClearAdapters(p) ==
    /\ clearPc[p] = 0
    /\ adapters' = <<>>
    /\ clearPc' = [clearPc EXCEPT ![p] = 1]
    /\ UNCHANGED <<lastAdd, engineVars, poolVars, auxVars>>

\* sh.ClearAllAdapters(), second part: addBuiltinAdapters makes three
\* AddAdapters calls and drops their errors
AddBuiltinAdapter(p) ==
    /\ clearPc[p] \in 1..Len(BuiltinAdapters)
    /\ adapters' = AddLoop(adapters, <<BuiltinAdapters[clearPc[p]]>>, 1).adapters
    /\ clearPc' = [clearPc EXCEPT ![p] = IF @ = Len(BuiltinAdapters) THEN 0 ELSE @ + 1]
    /\ UNCHANGED <<lastAdd, engineVars, poolVars, auxVars>>

\* NewAdapterHost(): an empty registry plus the built-in adapters
InitHost ==
    /\ adapters = AddLoop(<<>>, BuiltinAdapters, 1).adapters
    /\ InitHostIdle
    /\ InitPoolIdle
    /\ InitEngineIdle
    /\ InitAuxIdle

NextHost ==
    \/ \E batch \in Batches : AddAdapters(batch)
    \/ \E p \in Clearers : ClearAdapters(p)
    \/ \E p \in Clearers : AddBuiltinAdapter(p)

SpecHost == InitHost /\ [][NextHost]_vars

----------------------------------------------------------------------------
(* The execution pool: a counting semaphore of MaxParallelExecutions permits
   around every adapter invocation *)

\* a semaphore that hands out a permit whatever it has left
CanAcquireAlways(free) == TRUE

\* a permit can be taken while one is free
CanAcquire(free) == free > 0

Job(state, depth) == [state |-> state, depth |-> depth]

Running == {i \in 1..Len(jobs) : jobs[i].state = "running"}

\* a query asks for an adapter invocation
Submit(depth) ==
    /\ Len(jobs) < MaxJobs
    /\ jobs' = Append(jobs, Job("waiting", depth))
    /\ UNCHANGED <<permits, hostVars, engineVars, auxVars>>

\* the invocation takes a permit and calls the adapter
Acquire(i) ==
    /\ jobs[i].state = "waiting"
    /\ CanAcquire(permits)
    /\ permits' = permits - 1
    /\ jobs' = [jobs EXCEPT ![i].state = "running"]
    /\ UNCHANGED <<hostVars, engineVars, auxVars>>

\* the context is cancelled while the invocation waits for a permit
CancelWaiting(i) ==
    /\ jobs[i].state = "waiting"
    /\ jobs' = [jobs EXCEPT ![i].state = "done"]
    /\ UNCHANGED <<permits, hostVars, engineVars, auxVars>>

\* the adapter call returns (items, an error, or a cancellation) and the
\* permit is released; the linked items of a successful call become
\* invocations of the next link-expansion level
Release(i, outcome, links) ==
    /\ jobs[i].state = "running"
    /\ links > 0 => outcome = "ok" /\ jobs[i].depth > 0
    /\ Len(jobs) + links <= MaxJobs
    /\ permits' = permits + 1
    /\ jobs' = [jobs EXCEPT ![i].state = "done"]
               \o [k \in 1..links |-> Job("waiting", jobs[i].depth - 1)]
    /\ UNCHANGED <<hostVars, engineVars, auxVars>>

InitPool ==
    /\ adapters \in EngineRegistries
    /\ InitHostIdle
    /\ InitPoolIdle
    /\ InitEngineIdle
    /\ InitAuxIdle

NextPool ==
    \/ \E depth \in 0..MaxDepth : Submit(depth)
    \/ \E i \in 1..Len(jobs) : Acquire(i)
    \/ \E i \in 1..Len(jobs) : CancelWaiting(i)
    \/ \E i \in 1..Len(jobs) : \E outcome \in {"ok", "error", "cancelled"} :
         \E links \in 0..2 : Release(i, outcome, links)

SpecPool == InitPool /\ [][NextPool]_vars

----------------------------------------------------------------------------
(* AdapterHost.ExpandQuery *)

\* the characters of the scope names
Chars ==
    ("test" :> <<"t", "e", "s", "t">>) @@ ("test2" :> <<"t", "e", "s", "t", "2">>)
    @@ ("prod" :> <<"p", "r", "o", "d">>) @@ ("global" :> <<"g", "l", "o", "b", "a", "l">>)
    @@ ("*" :> <<"*">>)

\* strings.Contains(s, substr)
Contains(s, substr) ==
    \E i \in 0..(Len(Chars[s]) - Len(Chars[substr])) :
        SubSeq(Chars[s], i + 1, i + Len(Chars[substr])) = Chars[substr]

VisibleAdapters(reg) == SelectSeq(reg, LAMBDA a : ~Hidden(a))

AdaptersByType(reg, typ) == SelectSeq(reg, LAMBDA a : Type(a) = typ)

\* an expansion for which every registered adapter is a candidate
CheckAdaptersAll(reg, q) == reg

\* checkAdapters: the visible adapters for a wildcard type, else the
\* adapters of the type
CheckAdapters(reg, q) ==
    IF IsWildcard(q.type) THEN VisibleAdapters(reg) ELSE AdaptersByType(reg, q.type)

\* an expansion that takes every scope of a candidate adapter
ScopeMatchesAlways(adapter, adapterScope, q) == TRUE

\* the condition under which a scope of a candidate adapter yields a sub-query
ScopeMatches(adapter, adapterScope, q) ==
    \/ IsWildcard(adapterScope)
    \/ IsWildcard(q.scope) /\ ~Hidden(adapter)
    \/ Contains(adapterScope, q.scope)

\* a sub-query that keeps the scope of the query
DestKeepsScope(adapter, adapterScope, q) ==
    [type |-> Type(adapter), scope |-> q.scope, adapter |-> adapter]

\* dest and the adapter it is mapped to: the type of the adapter and the
\* more specific of the two scopes
Dest(adapter, adapterScope, q) ==
    [type |-> Type(adapter),
     scope |-> IF IsWildcard(adapterScope) THEN q.scope ELSE adapterScope,
     adapter |-> adapter]

\* the scopes of an adapter that yield a sub-query, in order
MatchingScopes(adapter, q) ==
    SelectSeq(Scopes(adapter), LAMBDA adapterScope : ScopeMatches(adapter, adapterScope, q))

\* an expansion that stops at the first matching scope of an adapter
ExpandAdapterOnce(adapter, q) ==
    [k \in 1..(IF Len(MatchingScopes(adapter, q)) > 0 THEN 1 ELSE 0) |->
        Dest(adapter, MatchingScopes(adapter, q)[k], q)]

\* the inner loop of ExpandQuery: one sub-query per matching scope
ExpandAdapter(adapter, q) ==
    [k \in 1..Len(MatchingScopes(adapter, q)) |->
        Dest(adapter, MatchingScopes(adapter, q)[k], q)]

RECURSIVE ExpandLoop(_, _, _)
ExpandLoop(check, q, i) ==
    IF i > Len(check) THEN <<>>
    ELSE ExpandAdapter(check[i], q) \o ExpandLoop(check, q, i + 1)

\* expandedQueries: the entries of the returned map, in the order they are made
ExpandedQueries(reg, q) == ExpandLoop(CheckAdapters(reg, q), q, 1)

\* the adapters a test may register before it expands queries
ExpandAdapters == {"a1", "a2", "a3", "a4", "a5", "a6"}

\* the registries AddAdapters builds from them on a new host
ExpandRegistries ==
    {AddLoop(BuiltinAdapters, batch, 1).adapters :
        batch \in {b \in UNION {[1..n -> ExpandAdapters] : n \in 0..MaxRegistry} :
                      AddLoop(BuiltinAdapters, b, 1).err = "nil"}}

ExpandInputs ==
    [type : {"person", "dog", "secret", "*"}, scope : {"test", "test2", "prod", "*"}]

\* sh.ExpandQuery(q)
ExpandQuery(q) ==
    /\ expanded' = [q |-> q, subs |-> ExpandedQueries(adapters, q)]
    /\ UNCHANGED <<hostVars, engineVars, poolVars, expandOthers>>

InitExpand ==
    /\ adapters \in ExpandRegistries
    /\ InitHostIdle
    /\ InitPoolIdle
    /\ InitEngineIdle
    /\ InitAuxIdle

NextExpand == \E q \in ExpandInputs : ExpandQuery(q)

SpecExpand == InitExpand /\ [][NextExpand]_vars

----------------------------------------------------------------------------
(* Concurrent queries: Engine.Get, Engine.Find and Engine.Search step by    *)
(* step, each in its own goroutine, against one source. The GetFindMutex    *)
(* is a read-write lock per <<context, type>>: GetLock and GetUnlock are    *)
(* its read side, FindLock and FindUnlock its write side.                   *)

LockRequests ==
    [method : {"GET"}, type : {"person"}, context : QueryContexts,
     query : Queries, ignoreCache : BOOLEAN]
    \cup [method : {"FIND", "SEARCH"}, type : {"person"}, context : QueryContexts,
          query : Queries, ignoreCache : {FALSE}]

\* the one relevant source of a concurrent query
SourceOf(r) == FilterSources(r.type, r.context)[1]

TagsFor(r) ==
    IF r.method = "GET" THEN GetTags(SourceOf(r), r)
    ELSE IF r.method = "FIND" THEN FindTags(SourceOf(r), r)
    ELSE SearchTags(SourceOf(r), r)

\* ExecuteRequest hands the request to its method in a new goroutine
StartQuery(p, r) ==
    /\ procs[p].pc = "idle"
    /\ Len(FilterSources(r.type, r.context)) = 1
    /\ procs' = [procs EXCEPT ![p] = [NoProc EXCEPT !.pc = "lock", !.req = r]]
    /\ UNCHANGED <<writers, hostVars, engineVars, poolVars, lockOthers>>

\* e.gfm.GetLock: a read lock, taken by Get and by Search
GetLock(p) ==
    /\ procs[p].pc = "lock"
    /\ procs[p].req.method \in {"GET", "SEARCH"}
    /\ Key(procs[p].req) \notin writers
    /\ readers' = [readers EXCEPT ![Key(procs[p].req)] = @ + 1]
    /\ procs' = [procs EXCEPT ![p].pc = "lookup"]
    /\ UNCHANGED <<writers, cache, panicked, ncalls, last, prev, hostVars, poolVars,
                   lockOthers>>

\* e.gfm.FindLock: the write lock, taken by Find
FindLock(p) ==
    /\ procs[p].pc = "lock"
    /\ procs[p].req.method = "FIND"
    /\ Key(procs[p].req) \notin writers
    /\ readers[Key(procs[p].req)] = 0
    /\ writers' = writers \cup {Key(procs[p].req)}
    /\ procs' = [procs EXCEPT ![p].pc = "lookup"]
    /\ UNCHANGED <<hostVars, engineVars, poolVars, lockOthers>>

\* the cached answer for which Get returns without calling the source
GetReturnsCached(look) == look.err = "nil" /\ Len(look.items) = 1

\* the cache lookup of Get: a cached NOTFOUND leaves the loop, and Get
\* returns the empty item with the read lock still held
GetLookup(p) ==
    LET r == procs[p].req
        look == IF r.ignoreCache THEN CacheMiss ELSE CacheSearch(cache, TagsFor(r))
    IN
    /\ procs[p].pc = "lookup"
    /\ r.method = "GET"
    /\ IF GetSkipsOn(look.err)
       THEN /\ procs' = [procs EXCEPT ![p].pc = "done",
                                      ![p].res = [items |-> <<EmptyItem>>, err |-> "nil"]]
            /\ cache' = cache
       ELSE IF GetReturnsCached(look)
       THEN /\ procs' = [procs EXCEPT ![p].pc = "unlock",
                                      ![p].res = [items |-> look.items, err |-> "nil"]]
            /\ cache' = cache
       ELSE /\ procs' = [procs EXCEPT ![p].pc = "call"]
            /\ cache' = IF look.err = "nil" THEN CacheDelete(cache, TagsFor(r)) ELSE cache
    /\ UNCHANGED <<writers, readers, panicked, ncalls, last, prev, hostVars, poolVars,
                   lockOthers>>

\* the cache lookup of Find and of Search
ListLookupStep(p) ==
    LET r == procs[p].req
        look == IF r.ignoreCache THEN CacheMiss ELSE CacheSearch(cache, TagsFor(r))
        skips == IF r.method = "FIND" THEN FindSkipsOn(look.err) ELSE SearchSkipsOn(look.err)
    IN
    /\ procs[p].pc = "lookup"
    /\ r.method \in {"FIND", "SEARCH"}
    /\ IF skips
       THEN procs' = [procs EXCEPT ![p].pc = "unlock",
                                   ![p].res = [items |-> <<>>, err |-> "nil"]]
       ELSE IF look.err = "nil" /\ Len(look.items) > 0
       THEN procs' = [procs EXCEPT ![p].pc = "unlock",
                                   ![p].res = [items |-> look.items, err |-> "nil"]]
       ELSE procs' = [procs EXCEPT ![p].pc = "call"]
    /\ UNCHANGED <<writers, hostVars, engineVars, poolVars, lockOthers>>

\* src.Get, src.Find or src.Search runs and answers
CallSource(p, out) ==
    /\ procs[p].pc = "call"
    /\ ncalls' = ncalls + 1
    /\ procs' = [procs EXCEPT ![p].pc = "store", ![p].out = out]
    /\ UNCHANGED <<writers, cache, readers, panicked, last, prev, hostVars, poolVars,
                   lockOthers>>

\* what Get does with the answer of the source: a nil item returns with the
\* read lock still held
GetStore(p) ==
    LET r == procs[p].req
        out == procs[p].out
        item == NewItem(SourceOf(r), r, r.query)
    IN
    /\ procs[p].pc = "store"
    /\ r.method = "GET"
    /\ IF out.err # "nil"
       THEN /\ cache' = IF GetCachesError(out.err)
                        THEN StoreError(cache, out.err, TagsFor(r)) ELSE cache
            /\ procs' = [procs EXCEPT ![p].pc = "unlock",
                                      ![p].res = [items |-> <<EmptyItem>>, err |-> out.err]]
       ELSE IF Len(out.names) = 0
       THEN /\ cache' = cache
            /\ procs' = [procs EXCEPT ![p].pc = "done",
                                      ![p].res = [items |-> <<EmptyItem>>, err |-> "OTHER"]]
       ELSE /\ cache' = StoreItem(cache, item, TagsFor(r))
            /\ procs' = [procs EXCEPT ![p].pc = "unlock",
                                      ![p].res = [items |-> <<item>>, err |-> "nil"]]
    /\ UNCHANGED <<writers, readers, panicked, ncalls, last, prev, hostVars, poolVars,
                   lockOthers>>

\* what Find and Search do with the answer of the source
ListStore(p) ==
    LET r == procs[p].req
        cachesErr == IF r.method = "FIND" THEN FindCachesError(procs[p].out.err)
                     ELSE SearchCachesError(procs[p].out.err)
        st == ListCall(r, SourceOf(r), TagsFor(r), cachesErr, procs[p].out,
                       [cache |-> cache, n |-> ncalls, called |-> <<>>, items |-> <<>>,
                        errors |-> <<>>])
    IN
    /\ procs[p].pc = "store"
    /\ r.method \in {"FIND", "SEARCH"}
    /\ cache' = st.cache
    /\ procs' = [procs EXCEPT ![p].pc = "unlock",
                              ![p].res = [items |-> ListReturn(st).items,
                                          err |-> ListReturn(st).err]]
    /\ UNCHANGED <<writers, readers, panicked, ncalls, last, prev, hostVars, poolVars,
                   lockOthers>>

\* e.gfm.GetUnlock, by Get before it returns and by Search when it returns
GetUnlock(p) ==
    /\ procs[p].pc = "unlock"
    /\ procs[p].req.method \in {"GET", "SEARCH"}
    /\ readers' = [readers EXCEPT ![Key(procs[p].req)] = @ - 1]
    /\ procs' = [procs EXCEPT ![p].pc = "done"]
    /\ UNCHANGED <<writers, cache, panicked, ncalls, last, prev, hostVars, poolVars,
                   lockOthers>>

\* e.gfm.FindUnlock, deferred by Find
FindUnlock(p) ==
    /\ procs[p].pc = "unlock"
    /\ procs[p].req.method = "FIND"
    /\ writers' = writers \ {Key(procs[p].req)}
    /\ procs' = [procs EXCEPT ![p].pc = "done"]
    /\ UNCHANGED <<hostVars, engineVars, poolVars, lockOthers>>

InitLock ==
    /\ adapters = BuiltinAdapters \o <<"a1">>
    /\ InitHostIdle
    /\ InitPoolIdle
    /\ InitEngineIdle
    /\ InitAuxIdle

NextLock ==
    \/ \E p \in Procs, r \in LockRequests : StartQuery(p, r)
    \/ \E p \in Procs : GetLock(p)
    \/ \E p \in Procs : FindLock(p)
    \/ \E p \in Procs : GetLookup(p)
    \/ \E p \in Procs : ListLookupStep(p)
    \/ \E p \in Procs, out \in ListOutcomes : CallSource(p, out)
    \/ \E p \in Procs : GetStore(p)
    \/ \E p \in Procs : ListStore(p)
    \/ \E p \in Procs : GetUnlock(p)
    \/ \E p \in Procs : FindUnlock(p)

SpecLock == InitLock /\ [][NextLock]_vars

----------------------------------------------------------------------------
(* Engine.ExecuteRequest and the linked item requests of the items it      *)
(* returns                                                                  *)

\* LinkDepth is a uint32: 0 - 1 wraps to 2^32 - 1, a number larger than the
\* integers of the model checker hold; the model writes that value as -1
WrappedLinkDepth == 0 - 1

\* the requests ExecuteRequest is given, with the fields it passes down
LinkRequests ==
    [method : {"GET", "FIND"}, type : {"person"}, context : QueryContexts,
     query : Queries, ignoreCache : BOOLEAN, linkDepth : 0..MaxLinkDepth,
     itemSubject : {"items"}, responseSubject : {"responses"}, timeout : {10},
     uuid : {"u1"}]

\* the request as Get and Find read it
BaseRequest(req) ==
    [method |-> req.method, type |-> req.type, context |-> req.context,
     query |-> req.query, ignoreCache |-> req.ignoreCache]

\* a linked item request as a source builds it: the fields the engine is to
\* fill are zero, or hold whatever the source put there
LinkedItemRequest(query, depth, subject) ==
    [method |-> "GET", type |-> "person", context |-> "test", query |-> query,
     ignoreCache |-> FALSE, linkDepth |-> depth, itemSubject |-> subject,
     responseSubject |-> subject, timeout |-> 0, uuid |-> ""]

\* the LinkedItemRequests of an item a source returns
SourceLinks ==
    {<<>>,
     <<LinkedItemRequest("n2", 0, "")>>,
     <<LinkedItemRequest("n2", 0, ""), LinkedItemRequest("n3", 7, "elsewhere")>>}

\* Get sets item.Metadata on the item of a source; the &sdp.Item{} it returns
\* when it found nothing has none
HasMetadata(i) == i # EmptyItem

\* a request that keeps its own link depth
LinkDepthKept(req) == req.linkDepth

\* lir.LinkDepth = req.LinkDepth - 1, in uint32
LinkDepthBelow(req) == IF req.linkDepth = 0 THEN WrappedLinkDepth ELSE req.linkDepth - 1

\* a request that never links
KeepsLinkingNever(req) == FALSE

\* if req.GetLinkDepth() > 0: the links of the items are to be followed
KeepsLinking(req) == req.linkDepth > 0

\* the fields ExecuteRequest passes down to a linked item request
PassDown(req, lir) ==
    [lir EXCEPT !.linkDepth = LinkDepthBelow(req),
                !.itemSubject = req.itemSubject,
                !.responseSubject = req.responseSubject,
                !.ignoreCache = req.ignoreCache,
                !.timeout = req.timeout,
                !.uuid = req.uuid]

\* the body of the loop over requestItems
LinkItem(req, i, links) ==
    [item |-> i,
     links |-> IF KeepsLinking(req)
               THEN [k \in 1..Len(links) |-> PassDown(req, links[k])]
               ELSE links,
     sourceRequest |-> IF HasMetadata(i) THEN req ELSE NoReq]

\* the loop over requestItems: links are those of the items that have any
LinkItems(req, items, links) ==
    [k \in 1..Len(items) |->
        LinkItem(req, items[k], IF HasMetadata(items[k]) THEN links ELSE <<>>)]

\* ExecuteRequest of a GET
ExecuteLinkedGet(req) ==
    /\ req.method = "GET"
    /\ ~panicked
    /\ \E res \in Get(BaseRequest(req), FilterSources(req.type, req.context)),
          links \in SourceLinks :
         /\ res.n <= MaxCalls
         /\ res.rd <= MaxReaders
         /\ cache' = res.cache
         /\ ncalls' = res.n
         /\ readers' = [readers EXCEPT ![Key(req)] = res.rd]
         /\ panicked' = res.panicked
         /\ linked' = IF res.panicked THEN [req |-> req, items |-> <<>>, err |-> "PANIC"]
                      ELSE IF res.err # "nil" THEN [req |-> req, items |-> <<>>, err |-> res.err]
                      ELSE [req |-> req, items |-> LinkItems(req, <<res.item>>, links),
                            err |-> "nil"]
    /\ UNCHANGED <<last, prev, hostVars, poolVars, linkOthers>>

\* ExecuteRequest of a FIND
ExecuteLinkedFind(req) ==
    /\ req.method = "FIND"
    /\ ~panicked
    /\ readers[Key(req)] = 0
    /\ \E res \in Find(BaseRequest(req), FilterSources(req.type, req.context)),
          links \in SourceLinks :
         /\ res.n <= MaxCalls
         /\ cache' = res.cache
         /\ ncalls' = res.n
         /\ linked' = IF res.err # "nil" THEN [req |-> req, items |-> <<>>, err |-> res.err]
                      ELSE [req |-> req, items |-> LinkItems(req, res.items, links),
                            err |-> "nil"]
    /\ UNCHANGED <<readers, panicked, last, prev, hostVars, poolVars, linkOthers>>

InitLink ==
    /\ adapters = BuiltinAdapters \o <<"a1">>
    /\ InitHostIdle
    /\ InitPoolIdle
    /\ InitEngineIdle
    /\ InitAuxIdle

NextLink ==
    \/ \E req \in LinkRequests : ExecuteLinkedGet(req)
    \/ \E req \in LinkRequests : ExecuteLinkedFind(req)

SpecLink == InitLink /\ [][NextLink]_vars

----------------------------------------------------------------------------
(* The tracker of one query: Execute runs the query, then the linked item   *)
(* requests of the items it gets, breadth first, until its frontier is      *)
(* empty or it is cancelled. What the sources hold is a world of items: a   *)
(* tree in which every item links to k items nobody has seen, a cycle of k  *)
(* items each linking to the next, or a mesh of k items each linking to all *)
(* of them.                                                                 *)

Worlds == [kind : {"tree", "cycle", "mesh"}, k : 1..MaxLinks]

\* items are named by the path that leads to them (tree) or by their
\* position (cycle)
RootName(world) == IF world.kind = "tree" THEN <<>> ELSE <<1>>

\* the linked item requests a source puts on the item named name
WorldLinks(world, name) ==
    IF world.kind = "tree"
    THEN [j \in 1..world.k |-> LinkedItemRequest(Append(name, j), 0, "")]
    ELSE IF world.kind = "cycle"
    THEN <<LinkedItemRequest(<<(name[1] % world.k) + 1>>, 0, "")>>
    ELSE [j \in 1..world.k |-> LinkedItemRequest(<<j>>, 0, "")]

\* the query a tracker is created with
RootRequest(world, depth) ==
    [method |-> "GET", type |-> "person", context |-> "test",
     query |-> RootName(world), ignoreCache |-> FALSE, linkDepth |-> depth,
     itemSubject |-> "items", responseSubject |-> "responses", timeout |-> 10,
     uuid |-> "u1"]

\* what identifies a sub-query in the visited set
TrackerKey(q) == <<q.type, q.context, q.method, q.query>>

\* a cycle guard that lets everything through
AlreadyVisitedNever(q, visited) == FALSE

\* the cycle guard
AlreadyVisited(q, visited) == TrackerKey(q) \in visited

\* the children of a query are put on the frontier one by one, those the
\* cycle guard knows are skipped
RECURSIVE Enqueue(_, _, _, _)
Enqueue(tr, children, parentDepth, i) ==
    IF i > Len(children) THEN tr
    ELSE IF AlreadyVisited(children[i], tr.visited)
    THEN Enqueue(tr, children, parentDepth, i + 1)
    ELSE Enqueue([tr EXCEPT !.frontier = Append(@, [q |-> children[i],
                                                    parentDepth |-> parentDepth]),
                            !.visited = @ \cup {TrackerKey(children[i])}],
                 children, parentDepth, i + 1)

\* the depth recorded as the parent's for the query the tracker was given
NoParent == 0 - 1

\* Execute starts: the query is the whole frontier
StartTracker(world, depth) ==
    /\ tracker.state = "created"
    /\ tracker' = [NoTracker EXCEPT
                      !.state = "running",
                      !.world = world,
                      !.frontier = <<[q |-> RootRequest(world, depth),
                                      parentDepth |-> NoParent]>>,
                      !.visited = {TrackerKey(RootRequest(world, depth))}]
    /\ UNCHANGED <<hostVars, engineVars, poolVars, trackOthers>>

\* the tracker dispatches the sub-query at the head of its frontier: the
\* source answers with the item or with an error; the linked item requests
\* of the item, as ExecuteRequest rewrote them, go on the frontier when the
\* sub-query has link depth left
ExecuteNext(out) ==
    LET entry == Head(tracker.frontier)
        q == entry.q
        linkedItem == LinkItem(q, [type |-> q.type, context |-> q.context,
                                   uav |-> q.query, source |-> "a1"],
                               WorldLinks(tracker.world, q.query))
        children == IF out = "item" /\ KeepsLinking(q) THEN linkedItem.links ELSE <<>>
        popped == [tracker EXCEPT
                      !.frontier = Tail(@),
                      !.dispatched = Append(@, [key |-> TrackerKey(q),
                                                linkDepth |-> q.linkDepth,
                                                parentDepth |-> entry.parentDepth]),
                      !.items = IF out = "item" THEN Append(@, q.query) ELSE @,
                      !.errors = IF out = "item" THEN @ ELSE @ + 1]
        next == Enqueue(popped, children, q.linkDepth, 1)
    IN
    /\ tracker.state = "running"
    /\ Len(tracker.frontier) > 0
    /\ out = "error" => tracker.errors < MaxErrors
    /\ tracker' = [next EXCEPT !.state = IF Len(next.frontier) = 0 THEN "done" ELSE @]
    /\ UNCHANGED <<hostVars, engineVars, poolVars, trackOthers>>

\* Cancel, or the deadline: the frontier is left as it is
CancelTracker ==
    /\ tracker.state = "running"
    /\ tracker' = [tracker EXCEPT !.state = "cancelled"]
    /\ UNCHANGED <<hostVars, engineVars, poolVars, trackOthers>>

InitTrack ==
    /\ adapters = BuiltinAdapters \o <<"a1">>
    /\ InitHostIdle
    /\ InitPoolIdle
    /\ InitEngineIdle
    /\ InitAuxIdle

NextTrack ==
    \/ \E world \in Worlds, depth \in 0..MaxLinkDepth : StartTracker(world, depth)
    \/ \E out \in {"item", "error"} : ExecuteNext(out)
    \/ CancelTracker

SpecTrack == InitTrack /\ [][NextTrack]_vars

\* the tracker's goroutine keeps running until Execute returns
SpecTrackFair == SpecTrack /\ WF_vars(NextTrack)

----------------------------------------------------------------------------
(* Properties of the tracker *)

RECURSIVE Power(_, _)
Power(k, n) == IF n = 0 THEN 1 ELSE k * Power(k, n - 1)

\* the sum of k^i for i = 0..d
RECURSIVE SumOfPowers(_, _)
SumOfPowers(k, d) == IF d = 0 THEN 1 ELSE Power(k, d) + SumOfPowers(k, d - 1)

\* the link depth the tracker was started with
RootDepth == tracker.dispatched[1].linkDepth

\* C17: every sub-query derived from an item returned for a query with
\* LinkDepth d > 0 has LinkDepth d - 1; the linked item requests of an item
\* returned for a query with LinkDepth 0 are not dispatched; no LinkDepth is
\* below 0.
C17_LinkDepthDecrements ==
    /\ \A i \in 1..Len(tracker.dispatched) :
         /\ tracker.dispatched[i].linkDepth >= 0
         /\ i > 1 => /\ tracker.dispatched[i].parentDepth > 0
                     /\ tracker.dispatched[i].linkDepth =
                            tracker.dispatched[i].parentDepth - 1
    /\ \A i \in 1..Len(tracker.frontier) :
         /\ tracker.frontier[i].q.linkDepth >= 0
         /\ tracker.frontier[i].parentDepth # NoParent =>
                /\ tracker.frontier[i].parentDepth > 0
                /\ tracker.frontier[i].q.linkDepth = tracker.frontier[i].parentDepth - 1

\* a sub-query of a sub-query has been dispatched, and the leaves at depth 0
\* have been reached
C17_Witness ==
    /\ tracker.state = "done"
    /\ \E i \in 1..Len(tracker.dispatched) :
         /\ tracker.dispatched[i].parentDepth > 0
         /\ tracker.dispatched[i].linkDepth > 0
    /\ \E i \in 1..Len(tracker.dispatched) :
         /\ tracker.dispatched[i].parentDepth > 0
         /\ tracker.dispatched[i].linkDepth = 0

\* C19: when every item links to k items not seen before, a query with
\* LinkDepth d that completes, nothing having failed or been cancelled,
\* returns the sum over i = 0..d of k^i items.
C19_ItemCountIsSumOfPowers ==
    (/\ tracker.state = "done"
     /\ tracker.errors = 0
     /\ tracker.world.kind = "tree")
    => Len(tracker.items) = SumOfPowers(tracker.world.k, RootDepth)

C19_Witness ==
    /\ tracker.state = "done"
    /\ tracker.errors = 0
    /\ tracker.world.kind = "tree"
    /\ tracker.world.k > 1
    /\ RootDepth > 1
    /\ Len(tracker.items) > RootDepth + 1

\* no sub-query is dispatched twice by the tracker
NoKeyTwice ==
    \A i \in 1..Len(tracker.dispatched), j \in 1..Len(tracker.dispatched) :
        tracker.dispatched[i].key = tracker.dispatched[j].key => i = j

\* the items of the world the tracker runs in, when their number is finite
WorldSize == IF tracker.world.kind \in {"cycle", "mesh"} THEN tracker.world.k ELSE 0

\* C20: within one tracker no sub-query with the same (type, scope, method,
\* query) is dispatched twice, and Execute terminates with a finite set of
\* items, on a cycle of links as well: no more items than the cycle has.
C20_NoRepeatAndTerminates ==
    /\ [](/\ NoKeyTwice
          /\ tracker.world.kind \in {"cycle", "mesh"} => Len(tracker.items) <= WorldSize)
    /\ <>(tracker.state \in {"done", "cancelled"})

\* a cycle shorter than the link depth has been walked to its end
C20_Witness ==
    /\ tracker.state = "done"
    /\ tracker.world.kind = "cycle"
    /\ tracker.errors = 0
    /\ RootDepth > tracker.world.k
    /\ Len(tracker.items) = tracker.world.k

----------------------------------------------------------------------------
(* The tracker of one query under a clock. The source is SpeedTestSource:  *)
(* its Get answers with the item after QueryDelay, or with an error as soon *)
(* as the context of the query is done; every item links to one item not    *)
(* seen before. The context is done when the deadline of the query elapses  *)
(* or when Cancel is called. Time passes only when nothing else can happen. *)

\* a source that answers without delay
DueAtOnce(now, delay) == now

\* case <-time.After(s.QueryDelay)
Due(now, delay) == now + delay

\* the deadline now + Timeout has elapsed; Timeout = 0 is no deadline
Expired(now, timeout) == timeout > 0 /\ now >= timeout

\* a context that is never seen done
ContextLiveAlways(ctx) == TRUE

\* ctx.Err() == nil
ContextLive(ctx) == ctx = "live"

\* a tracker that keeps the items that arrive after its context is done
EmitsAlways(ctx) == TRUE

\* the tracker emits the items it gets while its context is live
Emits(ctx) == ctx = "live"

\* Execute starts: the query waits to be dispatched
StartExecute(timeout, delay, depth) ==
    /\ timed.state = "created"
    /\ timed' = [NoTimed EXCEPT !.state = "running", !.timeout = timeout,
                                !.delay = delay, !.rootDepth = depth,
                                !.todo = TRUE, !.todoDepth = depth]
    /\ UNCHANGED <<hostVars, engineVars, poolVars, timedOthers>>

\* ExecuteRequest of the sub-query that waits: it returns ctx.Err() when the
\* context is done, else the source is called
DispatchTimed ==
    /\ timed.state = "running"
    /\ timed.todo
    /\ timed' =
         IF ContextLive(timed.ctx)
         THEN [timed EXCEPT
                 !.todo = FALSE,
                 !.inflight = [depth |-> timed.todoDepth,
                               due |-> Due(timed.now, timed.delay), live |-> TRUE],
                 !.calls = @ + 1,
                 !.lateCalls = IF timed.ctx = "live" THEN @ ELSE @ + 1]
         ELSE [timed EXCEPT !.todo = FALSE]
    /\ UNCHANGED <<hostVars, engineVars, poolVars, timedOthers>>

\* SpeedTestSource.Get: the delay is over, the item is returned
SourceReturns ==
    /\ timed.inflight.live
    /\ timed.now >= timed.inflight.due
    /\ timed' = [timed EXCEPT !.inflight.live = FALSE, !.pending = "item"]
    /\ UNCHANGED <<hostVars, engineVars, poolVars, timedOthers>>

\* SpeedTestSource.Get: case <-ctx.Done(), a TIMEOUT error is returned
SourceObservesDone ==
    /\ timed.inflight.live
    /\ timed.ctx # "live"
    /\ timed' = [timed EXCEPT !.inflight.live = FALSE, !.pending = "error"]
    /\ UNCHANGED <<hostVars, engineVars, poolVars, timedOthers>>

\* the tracker takes what the call returned: an item is emitted, and its
\* linked item request waits to be dispatched when the query had link depth
\* left
CollectTimed ==
    /\ timed.pending # "none"
    /\ timed' =
         IF timed.pending = "item" /\ Emits(timed.ctx)
         THEN [timed EXCEPT
                 !.pending = "none",
                 !.items = @ + 1,
                 !.lateItems = IF timed.ctx = "live" THEN @ ELSE @ + 1,
                 !.todo = KeepsLinking([linkDepth |-> timed.inflight.depth]),
                 !.todoDepth = LinkDepthBelow([linkDepth |-> timed.inflight.depth])]
         ELSE [timed EXCEPT !.pending = "none"]
    /\ UNCHANGED <<hostVars, engineVars, poolVars, timedOthers>>

\* Execute returns: nothing waits and no call is in flight
ReturnTimed ==
    /\ timed.state = "running"
    /\ ~timed.todo
    /\ ~timed.inflight.live
    /\ timed.pending = "none"
    /\ timed' = IF timed.ctx = "live" THEN [timed EXCEPT !.state = "done"]
                ELSE IF timed.ctx = "deadline"
                THEN [timed EXCEPT !.state = "timedout", !.err = "TIMEOUT"]
                ELSE [timed EXCEPT !.state = "cancelled", !.err = "CANCELLED"]
    /\ UNCHANGED <<hostVars, engineVars, poolVars, timedOthers>>

\* the deadline of the query elapses: its context is done
DeadlineElapses ==
    /\ timed.state = "running"
    /\ timed.ctx = "live"
    /\ Expired(timed.now, timed.timeout)
    /\ timed' = [timed EXCEPT !.ctx = "deadline"]
    /\ UNCHANGED <<hostVars, engineVars, poolVars, timedOthers>>

\* qt.Cancel()
CancelTimed ==
    /\ timed.state = "running"
    /\ timed.ctx = "live"
    /\ timed' = [timed EXCEPT !.ctx = "cancelled", !.cancelledAt = timed.now]
    /\ UNCHANGED <<hostVars, engineVars, poolVars, timedOthers>>

\* a tick of the clock, while the call in flight is all there is to wait for
Tick ==
    /\ timed.state = "running"
    /\ timed.ctx = "live"
    /\ ~timed.todo
    /\ timed.pending = "none"
    /\ timed.inflight.live
    /\ timed.now < timed.inflight.due
    /\ ~Expired(timed.now, timed.timeout)
    /\ timed' = [timed EXCEPT !.now = @ + 1]
    /\ UNCHANGED <<hostVars, engineVars, poolVars, timedOthers>>

InitTimed ==
    /\ adapters = BuiltinAdapters \o <<"a1">>
    /\ InitHostIdle
    /\ InitPoolIdle
    /\ InitEngineIdle
    /\ InitAuxIdle

NextTimed ==
    \/ \E timeout \in 0..MaxTimeout, delay \in 1..MaxDelay, depth \in 0..MaxLinkDepth :
         StartExecute(timeout, delay, depth)
    \/ DispatchTimed
    \/ SourceReturns
    \/ SourceObservesDone
    \/ CollectTimed
    \/ ReturnTimed
    \/ DeadlineElapses
    \/ CancelTimed
    \/ Tick

SpecTimed == InitTimed /\ [][NextTimed]_vars

\* the goroutines of the tracker and of the source keep running
SpecTimedFair == SpecTimed /\ WF_vars(NextTimed)

----------------------------------------------------------------------------
(* Properties of the tracker under a clock *)

\* C21: a query whose Timeout is shorter than the delay of the only call it
\* needs ends with a timeout error and no items; a query whose Timeout is
\* longer, or that has none, returns the item and no error.
C21_TimeoutAgainstLatency ==
    (/\ timed.state \in {"done", "timedout", "cancelled"}
     /\ timed.rootDepth = 0
     /\ timed.ctx # "cancelled")
    => /\ (timed.timeout > 0 /\ timed.timeout < timed.delay) =>
              (timed.state = "timedout" /\ timed.err = "TIMEOUT" /\ timed.items = 0)
       /\ (timed.timeout = 0 \/ timed.timeout > timed.delay) =>
              (timed.state = "done" /\ timed.err = "nil" /\ timed.items = 1)

C21_Witness ==
    /\ timed.state = "timedout"
    /\ timed.rootDepth = 0
    /\ timed.timeout < timed.delay
    /\ timed.calls = 1

\* C22: when the deadline elapses in the middle of the link expansion,
\* Execute returns the items of the calls that completed before the deadline,
\* none of a later hop, and an error.
C22_PartialItemsOnDeadline ==
    timed.state = "timedout" =>
        /\ timed.err # "nil"
        /\ timed.lateItems = 0
        /\ timed.items * timed.delay <= timed.timeout
        /\ timed.timeout <= (timed.items + 1) * timed.delay
        /\ timed.items <= timed.rootDepth + 1

C22_Witness ==
    /\ timed.state = "timedout"
    /\ timed.items > 0
    /\ timed.items <= timed.rootDepth
    /\ timed.items * timed.delay < timed.timeout
    /\ timed.timeout < (timed.items + 1) * timed.delay

\* C23: after Cancel on a running tracker no call of a source is started and
\* no item is emitted, and Execute returns with an error, without a tick of
\* the clock in between.
C23_CancelQuiescence ==
    /\ [](timed.ctx = "cancelled" => (timed.lateCalls = 0 /\ timed.lateItems = 0))
    /\ [](timed.ctx = "cancelled" =>
            <>(/\ timed.state = "cancelled"
               /\ timed.err # "nil"
               /\ timed.now = timed.cancelledAt))

\* Cancel came while a sub-query waited to be dispatched, and Execute has
\* returned
C23_Witness ==
    /\ timed.state = "cancelled"
    /\ timed.items > 0
    /\ timed.calls = timed.items
    /\ timed.items <= timed.rootDepth

----------------------------------------------------------------------------
(* Engine.ItemRequestHandler and the responder of the request. The handler *)
(* starts the responder, runs the tracker, and finalises the responder from *)
(* what Execute returned. The responder sends WORKING when it starts and as *)
(* a keepalive until it is finalised; the tracker publishes the items.      *)

MaxRequests == 2
MaxTrackerCalls == 1

\* the UUID field of a request: the bytes of a UUID, or bytes that are none
RequestUUIDs == {"u1", "u2", "short"}

\* uuid.FromBytes(itemRequest.UUID) returns no error
FromBytesOk(u) == u # "short"

\* a handler that finds a relevant source for every request
ServedAlways(r) == TRUE

\* the handler has a relevant source for the request
Served(r) == Len(FilterSources(r.type, r.context)) > 0

\* e.TrackRequest(u, &requestTracker): the tracker is put in the index of the
\* engine under the UUID of its request
TrackRequest(index, u) == index \cup {u}

\* the requests the handler is given: one of a type that has a source, one of
\* a type that has none
HandlerRequests ==
    [method : {"GET"}, type : QueryTypes, context : QueryContexts, query : Queries,
     ignoreCache : {FALSE}, uuid : RequestUUIDs]

\* what Execute returns: no error, an *sdp.ItemRequestError, context.Canceled,
\* or another error
ExecuteOutcomes ==
    {[kind |-> "nil", errorType |-> ""],
     [kind |-> "canceled", errorType |-> ""],
     [kind |-> "deadline", errorType |-> ""],
     [kind |-> "other", errorType |-> ""]}
    \cup [kind : {"ire"}, errorType : {"NOTFOUND", "NOCONTEXT", "TIMEOUT", "OTHER"}]

Message(state, errorType) == [state |-> state, errorType |-> errorType]

TerminalStates == {"DONE", "ERROR", "CANCELLED"}

\* a handler that reports every outcome as DONE
TerminalAlwaysDone(outcome) == Message("DONE", "")

\* the branch of the handler for an outcome of Execute
TerminalFor(outcome) ==
    IF outcome.kind = "nil" THEN Message("DONE", "")
    ELSE IF outcome.kind = "ire" THEN Message("ERROR", outcome.errorType)
    ELSE IF outcome.kind = "canceled" THEN Message("CANCELLED", "")
    ELSE Message("ERROR", "OTHER")

Terminated(published) ==
    \E i \in 1..Len(published) : published[i].state \in TerminalStates

\* a responder whose keepalive never stops
KeepsAliveAlways(published) == TRUE

\* the keepalive runs until the responder is finalised
KeepsAlive(published) == ~Terminated(published)

\* a tracker that returns while items are still to be published
UnpublishedKept(n, outcome) == n

\* the items still to be published when Execute returns: none, publication
\* is complete or has been given up
Unpublished(n, outcome) == 0

CountOf(published, states) ==
    Cardinality({i \in 1..Len(published) : published[i].state \in states})

\* the handler is given a request: it returns at once when no source serves
\* it, else it starts the responder, which sends WORKING, and the tracker
ReceiveRequest(r, n) ==
    /\ handler.pc \in {"idle", "ignored", "finished"}
    /\ handler.toPublish = 0
    /\ handler.handled < MaxRequests
    /\ handler' =
         IF ~Served(r)
         THEN [handler EXCEPT !.pc = "ignored", !.outcome = NoOutcome,
                              !.published = <<>>, !.calls = 0, !.handled = @ + 1,
                              !.req = [type |-> r.type, context |-> r.context,
                                       uuid |-> r.uuid]]
         ELSE [handler EXCEPT !.pc = "executing", !.outcome = NoOutcome,
                              !.toPublish = n,
                              !.published = <<Message("WORKING", "")>>,
                              !.calls = 0, !.handled = @ + 1,
                              !.req = [type |-> r.type, context |-> r.context,
                                       uuid |-> r.uuid],
                              !.tracked = IF FromBytesOk(r.uuid)
                                          THEN TrackRequest(@, r.uuid) ELSE @]
    /\ UNCHANGED <<hostVars, engineVars, poolVars, handlerOthers>>

\* the tracker calls an adapter for the request
TrackerCalls ==
    /\ handler.pc = "executing"
    /\ handler.calls < MaxTrackerCalls
    /\ handler' = [handler EXCEPT !.calls = @ + 1]
    /\ UNCHANGED <<hostVars, engineVars, poolVars, handlerOthers>>

\* the tracker publishes an item on the ItemSubject
PublishItem ==
    /\ handler.pc \in {"executing", "returned", "finished"}
    /\ handler.toPublish > 0
    /\ handler' = [handler EXCEPT !.toPublish = @ - 1,
                                  !.published = Append(@, Message("ITEM", ""))]
    /\ UNCHANGED <<hostVars, engineVars, poolVars, handlerOthers>>

\* the responder sends a WORKING keepalive
Keepalive ==
    /\ handler.pc \in {"executing", "returned", "finished"}
    /\ KeepsAlive(handler.published)
    /\ CountOf(handler.published, {"WORKING"}) <= MaxKeepalives
    /\ handler' = [handler EXCEPT !.published = Append(@, Message("WORKING", ""))]
    /\ UNCHANGED <<hostVars, engineVars, poolVars, handlerOthers>>

\* requestTracker.Execute() returns: with no error once every item is
\* published, with an error at any time
ExecuteReturns(outcome) ==
    /\ handler.pc = "executing"
    /\ outcome.kind = "nil" => handler.toPublish = 0
    /\ handler' = [handler EXCEPT !.pc = "returned", !.outcome = outcome,
                                  !.toPublish = Unpublished(@, outcome)]
    /\ UNCHANGED <<hostVars, engineVars, poolVars, handlerOthers>>

\* responder.Done(), responder.Error(ire) or responder.Cancel(): a no-op on
\* a responder that is finalised already
Finalise ==
    /\ handler.pc = "returned"
    /\ handler' = [handler EXCEPT
                     !.pc = "finished",
                     !.published = IF Terminated(@) THEN @
                                   ELSE Append(@, TerminalFor(handler.outcome))]
    /\ UNCHANGED <<hostVars, engineVars, poolVars, handlerOthers>>

InitHandler ==
    /\ adapters = BuiltinAdapters \o <<"a1">>
    /\ InitHostIdle
    /\ InitPoolIdle
    /\ InitEngineIdle
    /\ InitAuxIdle

NextHandler ==
    \/ \E r \in HandlerRequests, n \in 0..MaxItems : ReceiveRequest(r, n)
    \/ TrackerCalls
    \/ PublishItem
    \/ Keepalive
    \/ \E outcome \in ExecuteOutcomes : ExecuteReturns(outcome)
    \/ Finalise

SpecHandler == InitHandler /\ [][NextHandler]_vars

\* the goroutine of the handler keeps running, and Execute returns
SpecHandlerFair == SpecHandler /\ WF_vars(NextHandler)

----------------------------------------------------------------------------
(* Heartbeats: sendHeartbeat and the loop of startSendingHeartbeats *)

MaxHeartbeats == 2
MaxFrequency == 2

ErrNoHealthcheckDefined == "no healthcheck defined"

\* what a configured HealthCheck may return: nil or an error, by its text
HealthCheckResults == {"nil", ErrNoHealthcheckDefined, "unhealthy"}

\* what ManagementClient.SubmitSourceHeartbeat may return as its error
SubmitResults == {"nil", "unavailable"}

\* the registries of the engines that send heartbeats
HeartbeatRegistries ==
    {BuiltinAdapters \o <<"a1">>, BuiltinAdapters \o <<"a1", "a4">>}

\* a heartbeat that never carries the error of the healthcheck
HeartbeatErrorNever(healthCheckError) == [set |-> FALSE, text |-> ""]

\* heartbeatError: nil, or a pointer to healthCheckError.Error()
HeartbeatError(healthCheckError) ==
    IF healthCheckError # "nil"
    THEN [set |-> TRUE, text |-> healthCheckError]
    ELSE [set |-> FALSE, text |-> ""]

\* GetError() of the submitted request: the empty string for a nil pointer
GetError(msg) == IF msg.error.set THEN msg.error.text ELSE ""

AvailableTypes(reg) == {Type(a) : a \in Range(VisibleAdapters(reg))}

AvailableScopes(reg) ==
    UNION {Range(Scopes(a)) : a \in Range(VisibleAdapters(reg))}

\* time.Duration(float64(Frequency) * 2.5): the conversion truncates
NextHeartbeatMax(frequency) == (frequency * 5) \div 2

\* the request sendHeartbeat hands to SubmitSourceHeartbeat
HeartbeatRequest(reg, healthCheckError, frequency) ==
    [availableTypes |-> AvailableTypes(reg),
     availableScopes |-> AvailableScopes(reg),
     error |-> HeartbeatError(healthCheckError),
     nextHeartbeatMax |-> NextHeartbeatMax(frequency)]

\* e.sendHeartbeat(ctx): hb after the call, when the healthcheck returns
\* healthCheckError and the management client returns submitErr
SendHeartbeatBody(hb, reg, healthCheckError, submitErr) ==
    IF hb.healthCheck = "undefined"
    THEN [hb EXCEPT !.calls = @ + 1, !.health = "none",
                    !.err = ErrNoHealthcheckDefined]
    ELSE [hb EXCEPT !.calls = @ + 1, !.health = healthCheckError,
                    !.sent = Append(@, HeartbeatRequest(reg, healthCheckError,
                                                        hb.frequency)),
                    !.err = submitErr,
                    !.lateSends = IF hb.ctx = "cancelled" THEN @ + 1 ELSE @]

\* the engine is given its HeartbeatOptions before it sends anything
SetHeartbeatOptions(healthCheck, frequency) ==
    /\ heartbeat.options = "nil"
    /\ heartbeat.loop = "idle"
    /\ heartbeat' = [heartbeat EXCEPT !.options = "set",
                                      !.healthCheck = healthCheck,
                                      !.frequency = frequency]
    /\ UNCHANGED <<hostVars, engineVars, poolVars, heartbeatOthers>>

\* a direct call of e.sendHeartbeat(ctx)
SendHeartbeat(healthCheckError, submitErr) ==
    /\ heartbeat.options = "set"
    /\ heartbeat.loop = "idle"
    /\ heartbeat.calls < MaxHeartbeats
    /\ heartbeat' = SendHeartbeatBody(heartbeat, adapters, healthCheckError,
                                      submitErr)
    /\ UNCHANGED <<hostVars, engineVars, poolVars, heartbeatOthers>>

\* startSendingHeartbeats: returns at once without options or frequency
StartSendingHeartbeats ==
    /\ heartbeat.loop = "idle"
    /\ heartbeat' =
         [heartbeat EXCEPT !.loop = IF heartbeat.options = "nil"
                                       \/ heartbeat.frequency = 0
                                    THEN "returned" ELSE "waiting"]
    /\ UNCHANGED <<hostVars, engineVars, poolVars, heartbeatOthers>>

\* the ticker puts a tick in its channel, which holds one
TickerFires ==
    /\ heartbeat.loop = "waiting"
    /\ ~heartbeat.tick
    /\ heartbeat.calls < MaxHeartbeats
    /\ heartbeat' = [heartbeat EXCEPT !.tick = TRUE]
    /\ UNCHANGED <<hostVars, engineVars, poolVars, heartbeatOthers>>

\* case <-ticker.C: the loop sends a heartbeat and goes on, whatever the
\* call returned
LoopSends(healthCheckError, submitErr) ==
    /\ heartbeat.loop = "waiting"
    /\ heartbeat.tick
    /\ heartbeat' = [SendHeartbeatBody(heartbeat, adapters, healthCheckError,
                                       submitErr) EXCEPT !.tick = FALSE]
    /\ UNCHANGED <<hostVars, engineVars, poolVars, heartbeatOthers>>

\* case <-ctx.Done(): the loop returns and the ticker is stopped
LoopReturns ==
    /\ heartbeat.loop = "waiting"
    /\ heartbeat.ctx = "cancelled"
    /\ heartbeat' = [heartbeat EXCEPT !.loop = "returned", !.tick = FALSE]
    /\ UNCHANGED <<hostVars, engineVars, poolVars, heartbeatOthers>>

\* the context of the loop is cancelled
CancelHeartbeats ==
    /\ heartbeat.loop = "waiting"
    /\ heartbeat.ctx = "live"
    /\ heartbeat' = [heartbeat EXCEPT !.ctx = "cancelled"]
    /\ UNCHANGED <<hostVars, engineVars, poolVars, heartbeatOthers>>

InitHeartbeat ==
    /\ adapters \in HeartbeatRegistries
    /\ InitHostIdle
    /\ InitPoolIdle
    /\ InitEngineIdle
    /\ InitAuxIdle

NextHeartbeat ==
    \/ \E healthCheck \in {"undefined", "defined"}, f \in 0..MaxFrequency :
          SetHeartbeatOptions(healthCheck, f)
    \/ \E h \in HealthCheckResults, sub \in SubmitResults : SendHeartbeat(h, sub)
    \/ StartSendingHeartbeats
    \/ TickerFires
    \/ \E h \in HealthCheckResults, sub \in SubmitResults : LoopSends(h, sub)
    \/ LoopReturns
    \/ CancelHeartbeats

SpecHeartbeat == InitHeartbeat /\ [][NextHeartbeat]_vars

----------------------------------------------------------------------------
(* Properties of the request handler *)

\* the position of the first terminal message, 0 when there is none
FirstTerminal ==
    IF Terminated(handler.published)
    THEN CHOOSE i \in 1..Len(handler.published) :
            /\ handler.published[i].state \in TerminalStates
            /\ \A j \in 1..(i - 1) : handler.published[j].state \notin TerminalStates
    ELSE 0

\* C24: for every request for which the handler starts a responder, exactly
\* one of DONE, ERROR, CANCELLED is sent, whatever Execute returns; no second
\* terminal message and no WORKING follows it.
C24_TerminalExactlyOnce ==
    /\ [](/\ CountOf(handler.published, TerminalStates) <= 1
          /\ \A i \in 1..Len(handler.published) :
               (FirstTerminal > 0 /\ i > FirstTerminal) =>
                   handler.published[i].state \notin TerminalStates \cup {"WORKING"})
    /\ [](handler.pc = "executing" =>
            <>(CountOf(handler.published, TerminalStates) = 1))

\* the responder sent a keepalive, then was finalised
C24_Witness ==
    /\ handler.pc = "finished"
    /\ CountOf(handler.published, {"WORKING"}) > 1
    /\ CountOf(handler.published, TerminalStates) = 1

\* C25: the terminal message of a request is published after every item of
\* the request: no item follows it.
C25_NoItemAfterTerminal ==
    \A i \in 1..Len(handler.published) :
        (FirstTerminal > 0 /\ i > FirstTerminal) => handler.published[i].state # "ITEM"

\* items were published and Execute returned an error before the rest
C25_Witness ==
    /\ handler.pc = "finished"
    /\ CountOf(handler.published, {"ITEM"}) > 0
    /\ CountOf(handler.published, {"ITEM"}) < MaxItems
    /\ handler.outcome.kind # "nil"

\* C30: the handler finalises the responder with DONE exactly when Execute
\* returned no error, with CANCELLED exactly when the error is
\* context.Canceled, and with ERROR for every other error, of kind OTHER when
\* the error is not an ItemRequestError.
C30_TerminalMatchesOutcome ==
    handler.pc = "finished" =>
        LET m == handler.published[FirstTerminal]
            o == handler.outcome
        IN  /\ FirstTerminal > 0
            /\ m.state = "DONE" <=> o.kind = "nil"
            /\ m.state = "CANCELLED" <=> o.kind = "canceled"
            /\ m.state = "ERROR" <=> o.kind \in {"ire", "deadline", "other"}
            /\ o.kind = "ire" => m.errorType = o.errorType
            /\ o.kind \in {"deadline", "other"} => m.errorType = "OTHER"

\* an error that is no ItemRequestError was reported as ERROR of kind OTHER
C30_Witness ==
    /\ handler.pc = "finished"
    /\ handler.outcome.kind = "other"
    /\ handler.published[FirstTerminal] = Message("ERROR", "OTHER")

\* C31: a request for which no registered source matches the type and the
\* context produces no response message, neither WORKING nor a terminal one,
\* registers no tracker and calls no adapter.
C31_UnservedRequestIsSilent ==
    /\ []((handler.pc # "idle"
           /\ Len(FilterSources(handler.req.type, handler.req.context)) = 0)
          => (handler.published = <<>> /\ handler.calls = 0
              /\ handler.outcome = NoOutcome))
    /\ [][\A r \in HandlerRequests : \A n \in 0..MaxItems :
            (ReceiveRequest(r, n) /\ Len(FilterSources(r.type, r.context)) = 0)
            => handler'.tracked = handler.tracked]_vars

\* a request of a type without sources was dropped after a served request
C31_Witness ==
    /\ handler.pc = "ignored"
    /\ handler.req.type = "house"
    /\ FromBytesOk(handler.req.uuid)
    /\ handler.handled = 2
    /\ handler.tracked # {}
    /\ handler.req.uuid \notin handler.tracked

\* C32: once a request has reached DONE, ERROR or CANCELLED its tracker is no
\* longer in the index of the engine: after the handler has returned a lookup
\* of the UUID finds nothing, and the index holds no completed request.
C32_TrackerRemovedAtTerminal ==
    handler.pc \in {"idle", "ignored", "finished"} => handler.tracked = {}

----------------------------------------------------------------------------
(* Properties of the heartbeats *)

\* the last call of sendHeartbeat ran a configured healthcheck
HealthChecked == heartbeat.calls > 0 /\ heartbeat.health # "none"

LastHeartbeat == heartbeat.sent[Len(heartbeat.sent)]

\* the last call handed a heartbeat to the management client, with the text
\* of the healthcheck's error in its Error field, empty when it returned nil
ErrorFieldCarriesHealth ==
    /\ Len(heartbeat.sent) > 0
    /\ GetError(LastHeartbeat) =
         (IF heartbeat.health = "nil" THEN "" ELSE heartbeat.health)
    /\ LastHeartbeat.error.set = (heartbeat.health # "nil")

\* C28 as stated: when the healthcheck returns an error, sendHeartbeat still
\* submits the heartbeat with the error text in its Error field and itself
\* returns no error; when the healthcheck returns nil the Error field is
\* empty.
C28_AsStated ==
    HealthChecked =>
        /\ ErrorFieldCarriesHealth
        /\ heartbeat.health # "nil" => heartbeat.err = "nil"

\* C28: when the healthcheck returns an error, sendHeartbeat still submits
\* the heartbeat with the error text in its Error field and returns what
\* SubmitSourceHeartbeat returned, never the error of the healthcheck: no
\* error when the management client took the heartbeat; when the healthcheck
\* returns nil the Error field is empty.
C28_HealthErrorInField ==
    HealthChecked =>
        /\ ErrorFieldCarriesHealth
        /\ heartbeat.err \in SubmitResults

\* an unhealthy engine has submitted its heartbeat and returned no error
C28_Witness ==
    /\ HealthChecked
    /\ heartbeat.health = "unhealthy"
    /\ GetError(LastHeartbeat) = "unhealthy"
    /\ heartbeat.err = "nil"

\* C34: every tick of the heartbeat loop results in a heartbeat being
\* submitted to the management client, whether or not a HealthCheck function
\* is configured.
C34_EveryTickSubmits ==
    [][(/\ heartbeat.loop = "waiting"
        /\ heartbeat.tick
        /\ heartbeat'.loop = "waiting"
        /\ ~heartbeat'.tick)
       => Len(heartbeat'.sent) = Len(heartbeat.sent) + 1]_vars

\* C35: the heartbeat loop sends no heartbeat once its context has been
\* cancelled, even if a tick is pending at the moment of cancellation; a
\* failed heartbeat does not stop the loop before cancellation.
C35_NoHeartbeatAfterCancel ==
    /\ heartbeat.lateSends = 0
    /\ (heartbeat.loop = "returned" /\ heartbeat.options = "set"
        /\ heartbeat.frequency > 0) => heartbeat.ctx = "cancelled"

----------------------------------------------------------------------------
(* Properties of the linking *)

\* C18: when the request has LinkDepth > 0, every linked item request of
\* every returned item carries the request's ItemSubject, ResponseSubject,
\* IgnoreCache, Timeout and UUID, and the SourceRequest of every returned
\* item is the request.
C18_LinksCarryParentFields ==
    (linked.err = "nil" /\ linked.req.linkDepth > 0) =>
        \A k \in 1..Len(linked.items) :
            /\ linked.items[k].sourceRequest = linked.req
            /\ \A j \in 1..Len(linked.items[k].links) :
                 LET lir == linked.items[k].links[j]
                 IN  /\ lir.itemSubject = linked.req.itemSubject
                     /\ lir.responseSubject = linked.req.responseSubject
                     /\ lir.ignoreCache = linked.req.ignoreCache
                     /\ lir.timeout = linked.req.timeout
                     /\ lir.uuid = linked.req.uuid

----------------------------------------------------------------------------
(* Properties of the concurrent queries *)

InSection(p) == procs[p].pc \in {"lookup", "call", "store", "unlock"}

\* C15: while a LIST (FIND) or a SEARCH of a <<context, type>> is inside its
\* locked section, no GET of the same <<context, type>> is inside its locked
\* section, and the other way round.
C15_ListSearchExcludeGet ==
    \A p \in Procs, q \in Procs :
        (/\ InSection(p) /\ InSection(q)
         /\ Key(procs[p].req) = Key(procs[q].req)
         /\ procs[p].req.method \in {"FIND", "SEARCH"})
        => procs[q].req.method # "GET"

\* every goroutine has made the same GET, with IgnoreCache unset, on the
\* empty cache, the source has answered each call with the item, and all
\* have returned
IdenticalGetsDone ==
    /\ \A p \in Procs :
         /\ procs[p].pc = "done"
         /\ procs[p].req.method = "GET"
         /\ ~procs[p].req.ignoreCache
         /\ procs[p].req = procs[1].req
         /\ procs[p].out \in {NoOut, [names |-> <<"n1">>, err |-> "nil"]}

\* C16: N identical concurrent GETs on the empty cache against a single
\* source: the source's Get is called exactly once and all N queries receive
\* the item.
C16_IdenticalGetsCallOnce ==
    IdenticalGetsDone =>
        /\ ncalls = 1
        /\ \A p \in Procs :
             /\ procs[p].res.err = "nil"
             /\ procs[p].res.items = <<NewItem("a1", procs[p].req, procs[p].req.query)>>

----------------------------------------------------------------------------
(* Properties of ExpandQuery *)

\* a query was expanded
Expanded == expanded # NoExpand

\* the sub-queries mapped to an adapter
SubsOf(a) == {k \in 1..Len(expanded.subs) : expanded.subs[k].adapter = a}

\* the positions of the scopes of an adapter that meet the expansion rule
\* for the expanded query
RuleScopes(a) ==
    {i \in 1..Len(Scopes(a)) :
        \/ Scopes(a)[i] = "*"
        \/ expanded.q.scope = "*" /\ ~Hidden(a)
        \/ Contains(Scopes(a)[i], expanded.q.scope)}

\* the adapters the expansion rule considers for the expanded query
RuleCandidates ==
    {a \in Range(adapters) :
        IF expanded.q.type = "*" THEN ~Hidden(a) ELSE Type(a) = expanded.q.type}

\* C11: no sub-query of a query with wildcard type or wildcard scope is
\* mapped to a hidden adapter.
C11_HiddenNeverMatchesWildcard ==
    (Expanded /\ (expanded.q.type = "*" \/ expanded.q.scope = "*"))
    => \A k \in 1..Len(expanded.subs) : ~Hidden(expanded.subs[k].adapter)

C13_NoWildcardSubQuery ==
    \A k \in 1..Len(expanded.subs) :
        expanded.subs[k].type # "*" /\ expanded.subs[k].scope # "*"

\* C13: every sub-query has a non-wildcard type, and its scope is the
\* wildcard only when the query has the wildcard scope and the adapter
\* declares the wildcard scope.
C13_WildcardScopeOnlyFromWildcardAdapter ==
    \A k \in 1..Len(expanded.subs) :
        /\ expanded.subs[k].type # "*"
        /\ expanded.subs[k].scope = "*"
           => /\ expanded.q.scope = "*"
              /\ "*" \in Range(Scopes(expanded.subs[k].adapter))

\* a query with the wildcard scope was expanded into a sub-query with the
\* wildcard scope for one adapter and a concrete scope for another
C13_Witness ==
    /\ expanded.q.scope = "*"
    /\ \E k \in 1..Len(expanded.subs) : expanded.subs[k].scope = "*"
    /\ \E k \in 1..Len(expanded.subs) :
         expanded.subs[k].scope # "*" /\ expanded.subs[k].adapter \in ExpandAdapters

\* C14 as stated: every adapter that matches the query under the expansion
\* rule gets exactly one sub-query.
C14_OneSubQueryPerAdapter ==
    Expanded
    => \A a \in RuleCandidates : RuleScopes(a) # {} => Cardinality(SubsOf(a)) = 1

\* C14: every adapter gets one sub-query for each of its declared scopes
\* that meets the expansion rule, so at least one when it matches; an
\* adapter that does not match, or is not considered, gets none.
C14_OneSubQueryPerMatchingScope ==
    Expanded
    => \A a \in Range(adapters) :
         Cardinality(SubsOf(a)) =
            IF a \in RuleCandidates THEN Cardinality(RuleScopes(a)) ELSE 0

\* an adapter with two matching scopes got two sub-queries
C14_Witness ==
    /\ Expanded
    /\ \E a \in RuleCandidates :
         /\ Cardinality(RuleScopes(a)) = 2
         /\ Cardinality(SubsOf(a)) = 2
         /\ \E k, l \in SubsOf(a) : expanded.subs[k].scope # expanded.subs[l].scope


\* the sub-query the expansion rule gives for scope i of adapter a
RuleDest(a, i) ==
    [type |-> Type(a),
     scope |-> IF Scopes(a)[i] = "*" THEN expanded.q.scope ELSE Scopes(a)[i],
     adapter |-> a]

\* C29: ExpandQuery emits a sub-query for adapter a and declared scope s if
\* and only if a is a candidate (every visible adapter when q.Type is *,
\* otherwise every adapter of type q.Type) and (s is *, or q.Scope is * and a
\* is not hidden, or s contains q.Scope as a substring); the sub-query has the
\* type of a, and the scope of q when s is *, otherwise s.
C29_SubQueryIffCandidateAndScope ==
    Expanded =>
        /\ \A k \in 1..Len(expanded.subs) :
             /\ expanded.subs[k].adapter \in RuleCandidates
             /\ \E i \in RuleScopes(expanded.subs[k].adapter) :
                  expanded.subs[k] = RuleDest(expanded.subs[k].adapter, i)
        /\ \A a \in RuleCandidates : \A i \in RuleScopes(a) :
             \E k \in SubsOf(a) : expanded.subs[k] = RuleDest(a, i)
        /\ \A a \in Range(adapters) :
             Cardinality(SubsOf(a)) =
                 IF a \in RuleCandidates THEN Cardinality(RuleScopes(a)) ELSE 0

\* a query of every type in scope prod reached the visible adapter of every
\* scope as (person, prod) and left out the hidden adapter of every scope
C29_Witness ==
    /\ Expanded
    /\ expanded.q = [type |-> "*", scope |-> "prod"]
    /\ {"a3", "a5"} \subseteq Range(adapters)
    /\ \E k \in SubsOf("a3") :
         expanded.subs[k] = [type |-> "person", scope |-> "prod", adapter |-> "a3"]
    /\ SubsOf("a5") = {}
----------------------------------------------------------------------------
(* Properties of the execution pool *)

\* C1: at no instant are more than MaxParallelExecutions adapter calls
\* executing, across all queries and all link-expansion levels.
C1_ConcurrencyCap == Cardinality(Running) <= MaxParallelExecutions

\* every permit is taken while an invocation of the next link-expansion
\* level, spawned by a finished call, waits for one
C1_Witness ==
    /\ Cardinality(Running) = MaxParallelExecutions
    /\ \E i \in 1..Len(jobs) : jobs[i].state = "done"
    /\ \E i \in 1..Len(jobs) : jobs[i].state = "waiting" /\ jobs[i].depth < MaxDepth

----------------------------------------------------------------------------
(* Properties of the adapter host *)

\* a wildcard scope on one side and a concrete scope on the other, for two
\* adapters of the same type
WildcardClash(a, b) ==
    /\ Type(a) = Type(b)
    /\ \/ /\ \E i \in 1..Len(Scopes(a)) : IsWildcard(Scopes(a)[i])
          /\ \E j \in 1..Len(Scopes(b)) : ~IsWildcard(Scopes(b)[j])
       \/ /\ \E i \in 1..Len(Scopes(b)) : IsWildcard(Scopes(b)[i])
          /\ \E j \in 1..Len(Scopes(a)) : ~IsWildcard(Scopes(a)[j])

\* C9: no two registrations of the same Type declare the same scope,
\* whatever AddAdapters and ClearAllAdapters calls were made or are under way.
C9_ScopeOwnedOnce ==
    \A i, j \in 1..Len(adapters) :
        (i # j /\ Type(adapters[i]) = Type(adapters[j]))
        => Range(Scopes(adapters[i])) \cap Range(Scopes(adapters[j])) = {}

\* an AddAdapters call was rejected at its second adapter after its first
\* was appended, two adapters of one type are registered, and a
\* ClearAllAdapters is between its two parts
C9_Witness ==
    /\ lastAdd.err = "exists"
    /\ lastAdd.given = 2
    /\ lastAdd.added = 1
    /\ \E i, j \in 1..Len(adapters) : i # j /\ Type(adapters[i]) = Type(adapters[j])
    /\ \E p \in Clearers : clearPc[p] # 0

\* C10: AddAdapters returns an error when one of its adapters and a
\* registered adapter of the same Type declare, one the wildcard scope and
\* the other a concrete scope.
C10_WildcardCollisionRejected ==
    [][\A batch \in Batches :
         ( /\ AddAdapters(batch)
           /\ \E i \in 1..Len(batch) : \E k \in 1..Len(adapters) :
                WildcardClash(adapters[k], batch[i]) )
         => lastAdd'.err # "nil"]_vars

\* C36: the three built-in adapters are registered in every state a
\* concurrent reader can observe, also while ClearAllAdapters runs; after
\* ClearAllAdapters has returned the registry holds exactly those three.
C36_BuiltinsAlwaysRegistered ==
    Range(BuiltinAdapters) \subseteq Range(adapters)

\* C38: an AddAdapters call that returns an error leaves the registry as it
\* was: no adapter of the rejected batch has been appended.
C38_AddIsAllOrNothing ==
    [][\A batch \in Batches :
         (AddAdapters(batch) /\ lastAdd'.err # "nil") => adapters' = adapters]_vars

----------------------------------------------------------------------------
(* Properties of the query methods and the cache *)

\* the sources the method of a request walks
Relevant(r) ==
    LET rel == FilterSources(r.type, r.context)
    IN  IF r.method = "SEARCH" THEN SelectSeq(rel, LAMBDA a : Searchable(a)) ELSE rel

\* the cache tags the method of a request uses for a source
TagsOf(src, r) ==
    IF r.method = "GET" THEN GetTags(src, r)
    ELSE IF r.method = "FIND" THEN FindTags(src, r)
    ELSE SearchTags(src, r)

\* the sources a query called
CalledSources(q) == {q.called[k].src : k \in 1..Len(q.called)}

\* the error an adapter call of a query ended with
CallError(q, k) ==
    IF q.req.method = "GET"
    THEN IF q.called[k].out \in {"NOTFOUND", "OTHER"} THEN q.called[k].out ELSE "nil"
    ELSE q.called[k].out.err

\* the items an adapter call of a query returned
CallItems(q, k) ==
    IF q.req.method = "GET"
    THEN IF q.called[k].out = "item"
         THEN {NewItem(q.called[k].src, q.req, q.req.query)} ELSE {}
    ELSE {NewItem(q.called[k].src, q.req, q.called[k].out.names[j]) :
            j \in 1..Len(q.called[k].out.names)}

\* the last two queries made the same request, with nothing expiring between
Repeated == prev.req # NoReq /\ prev.req = last.req

\* C2: after a SEARCH returned an item from an adapter, an immediately
\* following GET for the item's type, scope and unique attribute value with
\* IgnoreCache=false calls no adapter and returns that item.
C2_SearchThenGetFromCache ==
    [][\A k \in 1..Len(last.items) :
         ( /\ last.req.method = "SEARCH"
           /\ last.called # <<>>
           /\ last'.req.method = "GET"
           /\ ~last'.req.ignoreCache
           /\ last'.req.type = last.items[k].type
           /\ last'.req.context = last.items[k].context
           /\ last'.req.query = last.items[k].uav )
         => /\ last'.called = <<>>
            /\ last'.err = "nil"
            /\ last'.items = <<last.items[k]>>]_vars

C4_GetNotFoundCalledOnce ==
    ( /\ Repeated
      /\ last.req.method = "GET"
      /\ ~last.req.ignoreCache )
    => \A k \in 1..Len(prev.called) :
         prev.called[k].out = "NOTFOUND"
         => prev.called[k].src \notin CalledSources(last)

\* two identical GETs: the adapter answered the first with NOTFOUND and the
\* second called no adapter
C4_Witness ==
    /\ Repeated
    /\ last.req.method = "GET"
    /\ ~last.req.ignoreCache
    /\ Len(prev.called) = 1
    /\ prev.called[1].out = "NOTFOUND"
    /\ last.called = <<>>

\* C5: a GET for which every relevant adapter is skipped because of a cached
\* NOTFOUND returns a non-nil error and no item.
C5_CachedNotFoundStillFails ==
    ( /\ last.req.method = "GET"
      /\ ~last.req.ignoreCache
      /\ last.called = <<>>
      /\ Len(Relevant(last.req)) > 0
      /\ \A i \in 1..Len(Relevant(last.req)) :
           CacheSearch(cache, GetTags(Relevant(last.req)[i], last.req)).err = "NOTFOUND" )
    => /\ last.err # "nil"
       /\ last.items = <<>>

\* the adapters a LIST or a SEARCH ranges over
Listed(r) ==
    IF r.method = "SEARCH" THEN SelectSeq(Relevant(r), LAMBDA a : Searchable(a))
    ELSE Relevant(r)

\* the adapter failed in the last query: its call returned an error
FailedIn(q, a) ==
    \E k \in 1..Len(q.called) : q.called[k].src = a /\ q.called[k].out.err # "nil"

\* C26: a LIST or SEARCH over several adapters returns an error only if
\* every adapter failed, and then returns the first error; if at least one
\* adapter succeeded it returns the merged items of the successful adapters
\* with no error.
C26_ErrorOnlyIfEveryAdapterFailed ==
    ( /\ last.req.method \in {"FIND", "SEARCH"}
      /\ Len(Listed(last.req)) > 1 )
    => /\ last.err # "nil" =>
            /\ \A a \in Range(Listed(last.req)) : FailedIn(last, a)
            /\ last.err = last.called[1].out.err
       /\ (\A a \in Range(Listed(last.req)) : FailedIn(last, a)) =>
            last.err = last.called[1].out.err
       /\ (\E k \in 1..Len(last.called) : last.called[k].out.err = "nil") =>
            /\ last.err = "nil"
            /\ \A k \in 1..Len(last.called) : \A j \in 1..Len(last.called[k].out.names) :
                 NewItem(last.called[k].src, last.req, last.called[k].out.names[j])
                     \in Range(last.items)

\* C27: a query for which no registered adapter matches the type and the
\* scope, or, for a SEARCH, none of the matching adapters supports searching,
\* fails with a NOCONTEXT error and calls no adapter.
C27_NoMatchIsNoContext ==
    ( /\ last.req # NoReq
      /\ \/ Len(FilterSources(last.req.type, last.req.context)) = 0
         \/ /\ last.req.method = "SEARCH"
            /\ \A a \in Range(FilterSources(last.req.type, last.req.context)) :
                 ~Searchable(a) )
    => /\ last.err = "NOCONTEXT"
       /\ last.called = <<>>
       /\ last.items = <<>>

\* a SEARCH for a type and context whose only source cannot search has
\* failed with NOCONTEXT
C27_Witness ==
    /\ last.req.method = "SEARCH"
    /\ FilterSources(last.req.type, last.req.context) = <<"a7">>
    /\ last.err = "NOCONTEXT"
    /\ last.called = <<>>

\* the calls of a query that ended with an error of the adapter
FailedCalls(q) == {k \in 1..Len(q.called) : CallError(q, k) # "nil"}

\* the error of the first such call
FirstError(q) ==
    CallError(q, CHOOSE k \in FailedCalls(q) : \A j \in FailedCalls(q) : k <= j)

\* C33: Engine.Get tries the relevant sources in the given order and returns
\* the item of the first source that succeeds; if no source returns an item it
\* returns the first error that a source produced.
C33_FirstItemElseFirstError ==
    ( /\ last.req.method = "GET"
      /\ Len(Relevant(last.req)) > 0 )
    => /\ \A k \in 1..Len(last.called) :
            last.called[k].out = "item" =>
                /\ last.err = "nil"
                /\ last.items = <<NewItem(last.called[k].src, last.req, last.req.query)>>
                /\ k = Len(last.called)
       /\ ( /\ FailedCalls(last) # {}
            /\ \A k \in 1..Len(last.called) : last.called[k].out \notin {"item", "nilitem"}
            /\ last.err # "nil" )
          => last.err = FirstError(last)

\* C37: every call of Engine.Get releases the read lock it took exactly once,
\* on every return path: when Get returns, the number of holders of the lock
\* is what it was before the call.
C37_GetReleasesLockOnce ==
    [][\A r \in Requests :
         ExecuteGet(r) => (readers' = readers /\ ~panicked')]_vars

\* C39: a LIST is answered from the cache only by entries an earlier LIST of
\* the same adapter and scope stored: a source the LIST does not call has an
\* entry under the tags of a LIST, and what a SEARCH stored never answers for
\* it.
C39_ListAnsweredByListEntriesOnly ==
    [][\A r \in Requests :
         (ExecuteFind(r) /\ ~r.ignoreCache) =>
             \A i \in 1..Len(Relevant(r)) :
                 Relevant(r)[i] \notin CalledSources(last') =>
                     \E e \in 1..Len(cache) : cache[e].tags = FindTags(Relevant(r)[i], r)]_vars

\* the adapters called by both of two queries gave the same answer
SameBehaviour(p, q) ==
    \A i \in 1..Len(p.called) : \A j \in 1..Len(q.called) :
        p.called[i].src = q.called[j].src => p.called[i].out = q.called[j].out

\* C40: for fixed adapter behaviour, the same LIST or SEARCH made again over
\* the same adapters returns the same items and the same error or no-error
\* outcome, whether an adapter is answered from the cache or called again.
C40_CacheIsTransparent ==
    ( /\ Repeated
      /\ last.req.method \in {"FIND", "SEARCH"}
      /\ ~last.req.ignoreCache
      /\ SameBehaviour(prev, last) )
    => /\ Range(last.items) = Range(prev.items)
       /\ (last.err = "nil") = (prev.err = "nil")

\* C6: the cache holds no error entry other than NOTFOUND.
C6_NoOtherErrorCached ==
    \A i \in 1..Len(cache) : cache[i].err \in {"nil", "NOTFOUND"}

\* C7: of two consecutive identical queries, the second calls again the
\* adapter that failed the first with an OTHER error. A GET stops at the
\* first adapter that returns an item, so for a GET the adapter is the one
\* the second query reaches first: the first that failed with OTHER, after
\* adapters that answered NOTFOUND and are now skipped, or the very first
\* adapter when the cache is ignored.
C7_OtherFailureCalledAgain ==
    Repeated
    => \A k \in 1..Len(prev.called) :
         ( /\ CallError(prev, k) = "OTHER"
           /\ last.req.method = "GET"
              => IF last.req.ignoreCache THEN k = 1
                 ELSE \A j \in 1..(k - 1) : CallError(prev, j) # "OTHER" )
         => prev.called[k].src \in CalledSources(last)

\* two identical LIST queries: the adapter failed the first with OTHER and
\* was called by the second
C7_Witness ==
    /\ Repeated
    /\ last.req.method = "FIND"
    /\ ~last.req.ignoreCache
    /\ Len(prev.called) = 1
    /\ CallError(prev, 1) = "OTHER"
    /\ Len(last.called) = 1
    /\ last.called[1].src = prev.called[1].src

\* C8: a query with IgnoreCache=true calls the adapter whatever is cached,
\* and the items of its successful adapter calls are found by the cache
\* lookup of the same request with IgnoreCache=false.
C8_IgnoreCacheStillPopulates ==
    ( /\ last.req # NoReq
      /\ last.req.ignoreCache
      /\ ~panicked
      /\ Len(Relevant(last.req)) > 0 )
    => /\ last.called # <<>>
       /\ last.called[1].src = Relevant(last.req)[1]
       /\ \A k \in 1..Len(last.called) : \A item \in CallItems(last, k) :
            LET look == CacheSearch(cache, TagsOf(last.called[k].src, last.req))
            IN  look.err = "nil" /\ item \in Range(look.items)

====
